---- MODULE Spec2Model ----
(***************************************************************************)
(* RoadScript: the dual-source standards resolution subsystem.             *)
(*                                                                         *)
(* The model follows roadscript/standards/service.py (StandardsService),   *)
(* roadscript/ai/query_engine.py (QueryEngine), roadscript/ai/cache.py     *)
(* (QueryCache), roadscript/standards/loader.py (StandardsLoader) and the  *)
(* deterministic entry points of roadscript/core and roadscript/validators.*)
(*                                                                         *)
(* Numbers: every Python float is kept as an integer number of hundredths  *)
(* (830.0 is 83000, the tolerance 0.5 is 50).  All comparisons the code    *)
(* makes are on values with at most two decimals, where this is exact.     *)
(*                                                                         *)
(* Python values: None is PyNone; a JSON value is a record tagged by t     *)
(* ("null", "num", "str", "bool", "list", "dict").                         *)
(***************************************************************************)
EXTENDS Integers, Sequences, FiniteSets, TLC

VARIABLES
    rag_enabled,    \* StandardsService.rag_enabled after __init__
    strict,         \* StandardsService.strict
    query_engine,   \* TRUE iff StandardsService.query_engine is not None
    llm,            \* TRUE iff QueryEngine._llm is not None
    cache,          \* QueryEngine._cache._cache : key -> payload
    cache_file,     \* content of rag_cache.json (NoFile when absent)
    result,         \* outcome of the last entry-point call
    completed,      \* cache keys of the query-engine calls that have completed
    calls,          \* number of entry-point calls made so far
    caches,         \* QueryCache objects on one path: open, and their _cache
    store,          \* content of the file those objects share
    setters,        \* per thread: position inside QueryCache.set
    set_log,        \* key -> payload of the latest set(key, payload) made
    returned,       \* keys whose set has returned
    last,           \* the latest operation made on the first cache object
    set_count,      \* number of set calls made so far
    _instance,      \* StandardsLoader._instance: PyNone or a reference
    loaders,        \* StandardsLoader objects: created, and their _standards
    constructors,   \* per thread: position inside StandardsLoader()
    idm_file,       \* state of idm_standards.json
    obtained,       \* (instance, table) of every construction that returned
    file_reads,     \* number of times idm_standards.json was read
    loads_done,     \* number of successful loads
    late_reads,     \* reads started after a successful load had completed
    constructions,  \* number of StandardsLoader() calls made so far
    chunker,        \* chunk_text: its arguments, locals and position
    applied,        \* the latest library function applied: arguments, outcome
    calc,           \* the latest calculator or service call: arguments, outcome
    _standards,     \* StandardsLoader._standards: the loaded tables
    collections,    \* the collections persisted under one vector_root
    indexes         \* VectorIndex objects on that path: handle and position

serviceVars == <<rag_enabled, strict, query_engine, llm, cache, cache_file,
                 result, completed, calls>>
cacheVars == <<caches, store, setters, set_log, returned, last, set_count>>
loaderVars == <<_instance, loaders, constructors, idm_file, obtained,
                file_reads, loads_done, late_reads, constructions>>

calcVars == <<calc, _standards>>
indexVars == <<collections, indexes>>

libVars == <<chunker, applied, calcVars, indexVars>>

vars == <<serviceVars, cacheVars, loaderVars, libVars>>

----------------------------------------------------------------------------
(* Bounds of the model *)

\* entry-point calls explored per behaviour
MaxCalls == 2

\* QueryCache.set calls explored per behaviour
MaxSets == 3

\* StandardsLoader() calls explored per behaviour
MaxConstructions == 3

----------------------------------------------------------------------------
(* Python / JSON values *)

PyNone == [t |-> "null"]
JNum(h) == [t |-> "num", v |-> h]
JStr(s) == [t |-> "str", s |-> s]
JBool(b) == [t |-> "bool", b |-> b]
JList(xs) == [t |-> "list", items |-> xs]
JDict(d) == [t |-> "dict", d |-> d]

\* float(n) of a table integer n, in hundredths
Float(n) == n * 100

\* dict.get(key, default) on a mapping modelled as a function
DictGet(d, k, default) == IF k \in DOMAIN d THEN d[k] ELSE default

\* The numeric strings the model's back ends can return
NumericStrings == {"26", "30"}

\* float(value) for an arbitrary JSON value: ok with the float, or the
\* exception Python raises (ValueError for a non-numeric string, TypeError
\* for None, a list or a mapping).  float(True) is 1.0.
PyFloat(j) ==
    CASE j.t = "num" -> [ok |-> TRUE, v |-> j.v]
      [] j.t = "bool" -> [ok |-> TRUE, v |-> IF j.b THEN 100 ELSE 0]
      [] j.t = "str" ->
            IF j.s \in NumericStrings
            THEN [ok |-> TRUE,
                  v |-> Float(CHOOSE n \in 0..99 : ToString(n) = j.s)]
            ELSE [ok |-> FALSE, exc |-> "ValueError"]
      [] OTHER -> [ok |-> FALSE, exc |-> "TypeError"]

\* Python truthiness of a JSON value (None, empty containers, 0, "" are falsy)
Truthy(j) ==
    CASE j.t = "null" -> FALSE
      [] j.t = "num" -> j.v # 0
      [] j.t = "str" -> j.s # ""
      [] j.t = "bool" -> j.b
      [] j.t = "list" -> j.items # <<>>
      [] j.t = "dict" -> DOMAIN j.d # {}
      [] OTHER -> TRUE

Abs(x) == IF x < 0 THEN -x ELSE x
Min(a, b) == IF a < b THEN a ELSE b

----------------------------------------------------------------------------
(* The standards table (idm_standards.json), as the loader returns it.     *)
(* Keys are the JSON strings; the rows kept here are rows the repository's *)
(* tests assert.                                                            *)

design_speed_radius == ("30" :> 200 @@ "60" :> 830)
crest_K_values == ("45" :> 61 @@ "60" :> 151)
sag_K_values == ("45" :> 79 @@ "60" :> 136)
design_speed_ssd == ("30" :> 200 @@ "60" :> 570)

design_speed_based ==
    ( "55" :> [aadt_ranges |->
                (">6000" :> [foreslopes |->
                                ("5_1_or_4_1" :>
                                    [min |-> 26, max |-> 32, asterisk |-> TRUE])])]
   @@ "60" :> [aadt_ranges |->
                ( "1500-6000" :> [foreslopes |->
                                    ("6_1_or_flatter" :> [min |-> 26, max |-> 30])]
               @@ ">6000" :> [backslopes |->
                                    ("4_1_or_5_1" :> [min |-> 24, max |-> 26])])] )

\* int(key) for a table key: the inverse of str on the decimal strings
PyInt(s) == CHOOSE n \in 0..999 : ToString(n) = s

\* sorted(xs) of a finite set of integers, ascending
RECURSIVE SortedSeq(_)
SortedSeq(S) ==
    IF S = {} THEN <<>>
    ELSE LET m == CHOOSE x \in S : \A y \in S : x <= y
         IN <<m>> \o SortedSeq(S \ {m})

\* sorted(int(speed) for speed in table.keys())
AvailableSpeeds(table) == SortedSeq({PyInt(k) : k \in DOMAIN table})

----------------------------------------------------------------------------
(* Text handling of query_engine._extract_speed_values.  A text is a       *)
(* sequence of one-character strings.                                      *)

Digit == {"0", "1", "2", "3", "4", "5", "6", "7", "8", "9"}
Letter == {"a", "b", "c", "d", "e", "f", "g", "h", "i", "j", "k", "l", "m",
           "n", "o", "p", "q", "r", "s", "t", "u", "v", "w", "x", "y", "z",
           "A", "B", "C", "D", "E", "F", "G", "H", "I", "J", "K", "L", "M",
           "N", "O", "P", "Q", "R", "S", "T", "U", "V", "W", "X", "Y", "Z"}
\* \w of the re module
WordChar == Digit \cup Letter \cup {"_"}

\* str(n) as characters, n >= 0
RECURSIVE StrChars(_)
StrChars(n) ==
    IF n < 10 THEN <<ToString(n)>>
    ELSE StrChars(n \div 10) \o <<ToString(n % 10)>>

DigitValue(c) == CHOOSE d \in 0..9 : ToString(d) = c

\* int of a run of digit characters
RECURSIVE DigitsValue(_)
DigitsValue(ds) ==
    IF ds = <<>> THEN 0
    ELSE DigitsValue(SubSeq(ds, 1, Len(ds) - 1)) * 10 + DigitValue(ds[Len(ds)])

\* str.splitlines() on "\n"
RECURSIVE SplitLines(_)
SplitLines(text) ==
    IF text = <<>> THEN <<>>
    ELSE IF \E i \in 1..Len(text) : text[i] = "\n"
         THEN LET i == CHOOSE k \in 1..Len(text) :
                          text[k] = "\n" /\ \A m \in 1..(k - 1) : text[m] # "\n"
              IN <<SubSeq(text, 1, i - 1)>> \o SplitLines(SubSeq(text, i + 1, Len(text)))
         ELSE <<text>>

\* re.compile(r"\b" + str(speed) + r"\b").search(line)
PatternSearch(speed, line) ==
    LET pat == StrChars(speed)
        n == Len(pat)
    IN \E i \in 1..(Len(line) - n + 1) :
          /\ SubSeq(line, i, i + n - 1) = pat
          /\ (i = 1 \/ line[i - 1] \notin WordChar)
          /\ (i + n - 1 = Len(line) \/ line[i + n] \notin WordChar)

\* end of the maximal run of digits starting at position i
RECURSIVE DigitRunEnd(_, _)
DigitRunEnd(line, i) ==
    IF i < Len(line) /\ line[i + 1] \in Digit THEN DigitRunEnd(line, i + 1) ELSE i

\* re.findall(r"\d+(?:\.\d+)?", line) from position i on: each token is
\* [int |-> digits, frac |-> digits after the point, <<>> when there is none]
RECURSIVE FindTokens(_, _)
FindTokens(line, i) ==
    IF i > Len(line) THEN <<>>
    ELSE IF line[i] \notin Digit THEN FindTokens(line, i + 1)
    ELSE LET e == DigitRunEnd(line, i)
             hasFrac == /\ e + 2 <= Len(line)
                        /\ line[e + 1] = "."
                        /\ line[e + 2] \in Digit
             f == IF hasFrac THEN DigitRunEnd(line, e + 2) ELSE e
         IN <<[int |-> SubSeq(line, i, e),
               frac |-> IF hasFrac THEN SubSeq(line, e + 2, f) ELSE <<>>]>>
            \o FindTokens(line, f + 1)

\* float(token), in hundredths (digits after the second decimal are dropped)
TokenFloat(tok) ==
    LET f == tok.frac
        d1 == IF Len(f) >= 1 THEN DigitValue(f[1]) ELSE 0
        d2 == IF Len(f) >= 2 THEN DigitValue(f[2]) ELSE 0
    IN DigitsValue(tok.int) * 100 + d1 * 10 + d2

\* int(float(token))
TokenInt(tok) == DigitsValue(tok.int)

\* the checks made on the tokens of a line that contains the speed
TokensValues(tokens, speed, value_count) ==
    IF tokens = <<>> THEN PyNone
    ELSE IF TokenInt(tokens[1]) # speed THEN PyNone
    ELSE IF Len(tokens) < value_count + 1 THEN PyNone
    ELSE JList([k \in 1..value_count |-> JNum(TokenFloat(tokens[k + 1]))])

\* the values of one line, or PyNone when the line does not qualify
LineValues(line, speed, value_count) ==
    IF ~PatternSearch(speed, line) THEN PyNone
    ELSE TokensValues(FindTokens(line, 1), speed, value_count)

\* the lines of all snippets, in snippet order then line order
RECURSIVE AllLines(_)
AllLines(snippets) ==
    IF snippets = <<>> THEN <<>>
    ELSE SplitLines(snippets[1].text) \o AllLines(Tail(snippets))

\* the loop over the lines: the first qualifying line returns
RECURSIVE FirstQualifying(_, _, _)
FirstQualifying(lines, speed, value_count) ==
    IF lines = <<>> THEN PyNone
    ELSE IF LineValues(lines[1], speed, value_count) # PyNone
    THEN LineValues(lines[1], speed, value_count)
    ELSE FirstQualifying(Tail(lines), speed, value_count)

_extract_speed_values(snippets, speed, value_count) ==
    FirstQualifying(AllLines(snippets), speed, value_count)

----------------------------------------------------------------------------
(* roadscript/ai/cache.py *)

NoFile == [exists |-> FALSE]
EmptyDict == [k \in {} |-> PyNone]

\* json.dumps(mapping): the members of the JSON object, one per key
JsonDumps(m) == {<<k, m[k]>> : k \in DOMAIN m}

\* json.loads(text) of an object
JsonLoads(text) ==
    [k \in {p[1] : p \in text} |-> (CHOOSE p \in text : p[1] = k)[2]]

\* QueryCache.__init__ / _load: the in-memory mapping of a cache opened on
\* a path whose file is `file`
QueryCache_load(file) ==
    IF ~file.exists THEN EmptyDict ELSE JsonLoads(file.text)

\* QueryCache._save: the file after writing the in-memory mapping
QueryCache_save(mem) == [exists |-> TRUE, text |-> JsonDumps(mem)]

\* QueryCache.get
QueryCache_get(mem, key) == DictGet(mem, key, PyNone)

\* self._cache[key] = payload
DictSet(mem, key, payload) ==
    [k \in DOMAIN mem \cup {key} |-> IF k = key THEN payload ELSE mem[k]]

\* a set that buffers the write: the entry is assigned, the file is not written
QueryCache_set_buffered(mem, file, key, payload, save_ok) ==
    [cache |-> DictSet(mem, key, payload), cache_file |-> file, raised |-> FALSE]

\* QueryCache.set: the assignment, then _save.  save_ok = FALSE is the
\* write failing with OSError: the in-memory entry stays, the file does not
\* change and the exception leaves set.
QueryCache_set(mem, file, key, payload, save_ok) ==
    LET mem2 == DictSet(mem, key, payload)
    IN [cache |-> mem2,
        cache_file |-> IF save_ok THEN QueryCache_save(mem2) ELSE file,
        raised |-> ~save_ok]

\* hashlib.sha256 hexdigest, taken as injective on its input
Sha256Hex(s) == "sha256(" \o s \o ")"

RECURSIVE ConcatParts(_)
ConcatParts(parts) ==
    IF parts = <<>> THEN "" ELSE parts[1] \o ConcatParts(Tail(parts))

\* build_cache_key(*parts): every part is fed to one hasher in turn
build_cache_key(parts) == Sha256Hex(ConcatParts(parts))

----------------------------------------------------------------------------
(* roadscript/ai/query_engine.py *)

\* QueryEngine.retrieve: the Snippets of a Chroma query result
retrieve(chroma) ==
    LET n == Min(Len(chroma.documents),
                 Min(Len(chroma.metadatas), Len(chroma.distances)))
    IN [i \in 1..n |-> [text |-> chroma.documents[i],
                        metadata |-> chroma.metadatas[i],
                        distance |-> chroma.distances[i]]]

\* Snippet.as_dict: the JSON object of a Snippet
Snippet_as_dict(sn) ==
    [k \in {"text", "metadata", "distance"} |->
        CASE k = "text" -> sn.text
          [] k = "metadata" -> sn.metadata
          [] OTHER -> sn.distance]

\* Snippet(**snippet): the Snippet of a cached JSON object
SnippetFromDict(d) ==
    [text |-> d["text"], metadata |-> d["metadata"], distance |-> d["distance"]]

\* QueryResult.as_dict
as_dict(qr) ==
    [values |-> qr.values, method |-> qr.method,
     snippets |-> [i \in 1..Len(qr.snippets) |-> Snippet_as_dict(qr.snippets[i])],
     raw |-> qr.raw]

\* [Snippet(**snippet) for snippet in cached.get("snippets", [])]
SnippetsFromCached(dicts) ==
    [i \in 1..Len(dicts) |-> SnippetFromDict(dicts[i])]

\* the QueryResult rebuilt from a cached payload
FromCached(cached) ==
    [values |-> DictGet(cached, "values", PyNone),
     method |-> DictGet(cached, "method", "cache"),
     snippets |-> SnippetsFromCached(DictGet(cached, "snippets", <<>>)),
     raw |-> DictGet(cached, "raw", PyNone)]

\* the payload written for a failed extraction
MissPayload == [values |-> PyNone, method |-> "miss", snippets |-> <<>>]

\* what a query-engine call leaves behind: raised/exc, the returned value
\* (PyNone or a QueryResult), the cache, the file, and what the call did
EngineOutcome(raised, exc, value, mem, file, key, retrievals, llm_calls, sets) ==
    [raised |-> raised, exc |-> exc, value |-> value,
     cache |-> mem, cache_file |-> file, key |-> key,
     retrievals |-> retrievals, llm_calls |-> llm_calls, cache_sets |-> sets]

\* the outcome of a call that ends by returning `value` after the
\* self._cache.set whose effect is `s`
AfterSetOutcome(s, key, value, retrievals, llm_calls) ==
    EngineOutcome(s.raised, IF s.raised THEN "OSError" ELSE "",
                  IF s.raised THEN PyNone ELSE value,
                  s.cache, s.cache_file, key, retrievals, llm_calls, 1)

\* self._cache.set(key, payload); return value
AfterSet(mem, file, key, payload, value, env, retrievals, llm_calls) ==
    AfterSetOutcome(QueryCache_set(mem, file, key, payload, env.save_ok),
                    key, value, retrievals, llm_calls)

\* casted = [float(val) for val in values[:value_count]], given the outcome
\* of each float(): the first failure raises, else the result is cached
SpeedLlmAccept(mem, file, key, value_count, snippets, raw, floats, env) ==
    IF \E k \in 1..value_count : ~floats[k].ok
    THEN EngineOutcome(TRUE,
             floats[CHOOSE k \in 1..value_count :
                       ~floats[k].ok /\ \A j \in 1..(k - 1) : floats[j].ok].exc,
             PyNone, mem, file, key, 1, 1, 0)
    ELSE AfterSet(mem, file, key,
             as_dict([values |-> JList([k \in 1..value_count |-> JNum(floats[k].v)]),
                      method |-> "llm", snippets |-> snippets, raw |-> raw]),
             [values |-> JList([k \in 1..value_count |-> JNum(floats[k].v)]),
              method |-> "llm", snippets |-> snippets, raw |-> raw],
             env, 1, 1)

\* values = raw.get("values") and the shape check on it
SpeedLlmValues(mem, file, key, value_count, snippets, raw, values, env) ==
    IF values.t = "list" /\ Len(values.items) >= value_count
    THEN SpeedLlmAccept(mem, file, key, value_count, snippets, raw,
                        [k \in 1..value_count |-> PyFloat(values.items[k])], env)
    ELSE AfterSet(mem, file, key, MissPayload, PyNone, env, 1, 1)

\* the model fallback of query_speed_value, after retrieval found `snippets`
\* and the deterministic pass yielded nothing
SpeedLlmFallback(mem, file, has_llm, key, value_count, allow_llm, snippets, env) ==
    IF allow_llm /\ has_llm
    THEN IF env.llm.raises
         THEN EngineOutcome(TRUE, "TransportError", PyNone, mem, file, key, 1, 1, 0)
         ELSE IF env.llm.raw.t # "dict"
         THEN \* raw.get on a value that is no mapping
              EngineOutcome(TRUE, "AttributeError", PyNone, mem, file, key, 1, 1, 0)
         ELSE SpeedLlmValues(mem, file, key, value_count, snippets, env.llm.raw,
                             DictGet(env.llm.raw.d, "values", PyNone), env)
    ELSE AfterSet(mem, file, key, MissPayload, PyNone, env, 1, 0)

\* query_speed_value after the deterministic pass returned `values`
SpeedAfterExtract(mem, file, has_llm, key, value_count, allow_llm, snippets, values, env) ==
    IF Truthy(values)
    THEN AfterSet(mem, file, key,
             as_dict([values |-> values, method |-> "regex",
                      snippets |-> snippets, raw |-> PyNone]),
             [values |-> values, method |-> "regex",
              snippets |-> snippets, raw |-> PyNone],
             env, 1, 0)
    ELSE SpeedLlmFallback(mem, file, has_llm, key, value_count, allow_llm,
                          snippets, env)

\* query_speed_value after retrieval returned `snippets`
SpeedAfterRetrieve(mem, file, has_llm, key, speed, value_count, allow_llm, snippets, env) ==
    SpeedAfterExtract(mem, file, has_llm, key, value_count, allow_llm, snippets,
                      _extract_speed_values(snippets, speed, value_count), env)

\* `if cached:` of a cache lookup
CacheHit(cached) == cached # PyNone /\ DOMAIN cached # {}

\* query_speed_value after the cache lookup returned `cached`
SpeedAfterLookup(mem, file, has_llm, key, cached, speed, value_count, allow_llm, env) ==
    IF CacheHit(cached)
    THEN EngineOutcome(FALSE, "", FromCached(cached), mem, file, key, 0, 0, 0)
    ELSE IF env.retrieval.raises
    THEN EngineOutcome(TRUE, "TransportError", PyNone, mem, file, key, 1, 0, 0)
    ELSE SpeedAfterRetrieve(mem, file, has_llm, key, speed, value_count,
                            allow_llm, retrieve(env.retrieval.chroma), env)

\* the cache key of query_speed_value
SpeedCacheKey(query, speed, value_count) ==
    build_cache_key(<<query, ToString(speed), ToString(value_count)>>)

\* QueryEngine.query_speed_value(query, speed, value_count, allow_llm)
query_speed_value(mem, file, has_llm, query, speed, value_count, allow_llm, env) ==
    SpeedAfterLookup(mem, file, has_llm, SpeedCacheKey(query, speed, value_count),
                     QueryCache_get(mem, SpeedCacheKey(query, speed, value_count)),
                     speed, value_count, allow_llm, env)

\* ",".join(response_keys)
RECURSIVE JoinComma(_)
JoinComma(keys) ==
    IF keys = <<>> THEN ""
    ELSE IF Len(keys) = 1 THEN keys[1]
    ELSE keys[1] \o "," \o JoinComma(Tail(keys))

\* query_json after retrieval returned `snippets`
JsonAfterRetrieve(mem, file, has_llm, key, snippets, env) ==
    IF ~has_llm
    THEN EngineOutcome(FALSE, "", PyNone, mem, file, key, 1, 0, 0)
    ELSE IF env.llm.raises
    THEN EngineOutcome(TRUE, "TransportError", PyNone, mem, file, key, 1, 1, 0)
    ELSE IF env.llm.raw.t # "dict"
    THEN EngineOutcome(FALSE, "", PyNone, mem, file, key, 1, 1, 0)
    ELSE AfterSet(mem, file, key,
             as_dict([values |-> PyNone, method |-> "llm",
                      snippets |-> snippets, raw |-> env.llm.raw]),
             [values |-> PyNone, method |-> "llm",
              snippets |-> snippets, raw |-> env.llm.raw],
             env, 1, 1)

\* query_json after the cache lookup returned `cached`
JsonAfterLookup(mem, file, has_llm, key, cached, env) ==
    IF CacheHit(cached)
    THEN EngineOutcome(FALSE, "", FromCached(cached), mem, file, key, 0, 0, 0)
    ELSE IF env.retrieval.raises
    THEN EngineOutcome(TRUE, "TransportError", PyNone, mem, file, key, 1, 0, 0)
    ELSE JsonAfterRetrieve(mem, file, has_llm, key,
                           retrieve(env.retrieval.chroma), env)

\* the cache key of query_json
JsonCacheKey(query, response_keys) ==
    build_cache_key(<<query, "json", JoinComma(response_keys)>>)

\* QueryEngine.query_json(query, response_keys)
query_json(mem, file, has_llm, query, response_keys, env) ==
    JsonAfterLookup(mem, file, has_llm, JsonCacheKey(query, response_keys),
                    QueryCache_get(mem, JsonCacheKey(query, response_keys)), env)

----------------------------------------------------------------------------
(* roadscript/standards/service.py *)

\* StandardInterpolationRequiredError: the message names the requested speed,
\* the table and the available speeds
InterpolationRequired(design_speed, table, table_name) ==
    [type |-> "StandardInterpolationRequiredError",
     design_speed |-> design_speed,
     table_name |-> table_name,
     available |-> AvailableSpeeds(table)]

ValueErrorExc(msg) == [type |-> "ValueError", msg |-> msg]
OtherExc(type) == [type |-> type]

\* a lookup that falls back to the closest speed of the table
NearestLookup(table, design_speed) ==
    LET closest == CHOOSE k \in DOMAIN table :
                       \A j \in DOMAIN table :
                           Abs(PyInt(k) - design_speed) <= Abs(PyInt(j) - design_speed)
    IN [found |-> TRUE, speed_key |-> closest, value |-> table[closest]]

\* speed_key = str(design_speed); if speed_key not in table: raise;
\* value = table[speed_key]
TableLookup(table, design_speed) ==
    LET speed_key == ToString(design_speed)
    IN IF speed_key \notin DOMAIN table
       THEN [found |-> FALSE]
       ELSE [found |-> TRUE, speed_key |-> speed_key, value |-> table[speed_key]]

Tolerance == 50

\* a comparison that excludes the tolerance itself
MatchesValueExclusive(structured_value, rag_value) ==
    Abs(structured_value - rag_value) < Tolerance

_matches_value(structured_value, rag_value) ==
    Abs(structured_value - rag_value) <= Tolerance

\* rag_min, rag_max: JNum or PyNone
_matches_range(structured_min, structured_max, rag_min, rag_max) ==
    IF rag_min = PyNone \/ rag_max = PyNone THEN FALSE
    ELSE /\ Abs(structured_min - rag_min.v) <= Tolerance
         /\ Abs(structured_max - rag_max.v) <= Tolerance

\* Optional[float]: JNum or PyNone
_safe_float(value) ==
    LET f == PyFloat(value) IN IF f.ok THEN JNum(f.v) ELSE PyNone

ExcerptLen == 400

RECURSIVE CitationsOf(_)
CitationsOf(snippets) ==
    IF snippets = <<>> THEN <<>>
    ELSE <<[source |-> DictGet(snippets[1].metadata, "source", PyNone),
            excerpt |-> SubSeq(snippets[1].text, 1,
                               Min(ExcerptLen, Len(snippets[1].text)))]>>
         \o CitationsOf(Tail(snippets))

\* citations of the first two snippets
_build_citation(rag_result) ==
    CitationsOf(SubSeq(rag_result.snippets, 1, Min(2, Len(rag_result.snippets))))

StandardValue(value, units, source, verified, verification, citation) ==
    [value |-> value, units |-> units, source |-> source, verified |-> verified,
     verification |-> verification, citation |-> citation]

\* what an entry point leaves behind.  eo is the query-engine outcome when
\* the engine was called, NoEngineCall(svc) otherwise.
NoEngineCall(svc) ==
    [raised |-> FALSE, exc |-> "", value |-> PyNone,
     cache |-> svc.cache, cache_file |-> svc.cache_file, key |-> "",
     retrievals |-> 0, llm_calls |-> 0, cache_sets |-> 0]

Raise(exc, eo, engine_called) ==
    [outcome |-> "raise", exc |-> exc, engine_called |-> engine_called, eo |-> eo]

Return(value, eo, engine_called) ==
    [outcome |-> "return", value |-> value, engine_called |-> engine_called, eo |-> eo]

\* the closing `return StandardValue(..., source="structured", verified=True)`
StructuredReturn(value, units, verification, citation, eo, engine_called) ==
    Return(StandardValue(value, units, "structured", TRUE, verification, citation),
           eo, engine_called)

\* a disagreement branch that does not consult strict
DisagreementReturnLenient(svc, rag_value, structured_value, units, verification, citation, eo) ==
    Return(StandardValue(rag_value, units, "rag_unverified", FALSE,
                         verification, citation), eo, TRUE)

\* a disagreement branch that keeps the table value in the unverified result
DisagreementReturnTableValue(svc, rag_value, structured_value, units, verification, citation, eo) ==
    IF ~svc.strict
    THEN Return(StandardValue(structured_value, units, "rag_unverified", FALSE,
                              verification, citation), eo, TRUE)
    ELSE StructuredReturn(structured_value, units, verification, citation, eo, TRUE)

\* the `if not self.strict:` branch taken on disagreement
DisagreementReturn(svc, rag_value, structured_value, units, verification, citation, eo) ==
    IF ~svc.strict
    THEN Return(StandardValue(rag_value, units, "rag_unverified", FALSE,
                              verification, citation), eo, TRUE)
    ELSE StructuredReturn(structured_value, units, verification, citation, eo, TRUE)

\* the comparison of rag_value with the structured value and what follows
ResolveCompared(svc, structured_value, units, rag_value, verification, citation, eo) ==
    IF _matches_value(structured_value, rag_value.v)
    THEN Return(StandardValue(JNum(structured_value), units, "rag+structured",
                              TRUE, verification, citation), eo, TRUE)
    ELSE DisagreementReturn(svc, rag_value, JNum(structured_value), units,
                            verification, citation, eo)

\* a resolution whose verification record never takes the extracted value
ResolveWithResultUnrecorded(svc, structured_value, units, value_index, rag_result, eo) ==
    IF /\ rag_result # PyNone
       /\ Truthy(rag_result.values)
       /\ Len(rag_result.values.items) > value_index
    THEN ResolveCompared(svc, structured_value, units,
             rag_result.values.items[value_index + 1],
             [structured_value |-> JNum(structured_value),
              method |-> "structured"],
             JList(_build_citation(rag_result)), eo)
    ELSE StructuredReturn(JNum(structured_value), units,
                          [structured_value |-> JNum(structured_value),
                           method |-> "structured"],
                          PyNone, eo, TRUE)

\* _resolve_with_rag after query_speed_value returned rag_result
ResolveWithResult(svc, structured_value, units, value_index, rag_result, eo) ==
    IF /\ rag_result # PyNone
       /\ Truthy(rag_result.values)
       /\ Len(rag_result.values.items) > value_index
    THEN ResolveCompared(svc, structured_value, units,
             rag_result.values.items[value_index + 1],
             [structured_value |-> JNum(structured_value),
              rag_value |-> rag_result.values.items[value_index + 1],
              method |-> rag_result.method],
             JList(_build_citation(rag_result)), eo)
    ELSE StructuredReturn(JNum(structured_value), units,
                          [structured_value |-> JNum(structured_value),
                           method |-> "structured"],
                          PyNone, eo, TRUE)

\* _resolve_with_rag after the query-engine call ended with eo
ResolveAfterQuery(svc, structured_value, units, value_index, eo) ==
    IF eo.raised THEN Raise(OtherExc(eo.exc), eo, TRUE)
    ELSE ResolveWithResult(svc, structured_value, units, value_index, eo.value, eo)

\* a resolution that consults the engine whenever one is configured
ResolveIgnoringRagFlag(svc, query, structured_value, units, design_speed, value_count, value_index, env) ==
    IF svc.query_engine
    THEN ResolveAfterQuery(svc, structured_value, units, value_index,
             query_speed_value(svc.cache, svc.cache_file, svc.llm, query,
                               design_speed, value_count, TRUE, env))
    ELSE StructuredReturn(JNum(structured_value), units,
                          [structured_value |-> JNum(structured_value),
                           method |-> "structured"],
                          PyNone, NoEngineCall(svc), FALSE)

\* StandardsService._resolve_with_rag; structured_value in hundredths
_resolve_with_rag(svc, query, structured_value, units, design_speed, value_count, value_index, env) ==
    IF svc.rag_enabled /\ svc.query_engine
    THEN ResolveAfterQuery(svc, structured_value, units, value_index,
             query_speed_value(svc.cache, svc.cache_file, svc.llm, query,
                               design_speed, value_count, TRUE, env))
    ELSE StructuredReturn(JNum(structured_value), units,
                          [structured_value |-> JNum(structured_value),
                           method |-> "structured"],
                          PyNone, NoEngineCall(svc), FALSE)

Units == "feet"

get_minimum_radius(svc, design_speed, env) ==
    LET row == TableLookup(design_speed_radius, design_speed)
    IN IF ~row.found
       THEN Raise(InterpolationRequired(design_speed, design_speed_radius,
                                        "minimum radius"),
                  NoEngineCall(svc), FALSE)
       ELSE _resolve_with_rag(svc,
                "INDOT design manual minimum horizontal curve radius "
                    \o "for design speed " \o ToString(design_speed) \o " mph",
                Float(row.value), Units, design_speed, 1, 0, env)

get_vertical_curve_k(svc, design_speed, curve_type, env) ==
    LET k_values == IF curve_type = "crest" THEN crest_K_values ELSE sag_K_values
        row == TableLookup(k_values, design_speed)
    IN IF ~row.found
       THEN Raise(InterpolationRequired(design_speed, k_values, "K-values"),
                  NoEngineCall(svc), FALSE)
       ELSE _resolve_with_rag(svc,
                "INDOT design manual vertical curve K-value "
                    \o "for " \o curve_type \o " curve at design speed "
                    \o ToString(design_speed) \o " mph",
                Float(row.value), Units, design_speed, 2,
                IF curve_type = "crest" THEN 0 ELSE 1, env)

get_stopping_sight_distance(svc, design_speed, env) ==
    LET row == TableLookup(design_speed_ssd, design_speed)
    IN IF ~row.found
       THEN Raise(InterpolationRequired(design_speed, design_speed_ssd, "SSD"),
                  NoEngineCall(svc), FALSE)
       ELSE _resolve_with_rag(svc,
                "INDOT design manual stopping sight distance "
                    \o "for design speed " \o ToString(design_speed) \o " mph",
                Float(row.value), Units, design_speed, 1, 0, env)

\* a bucketing that puts 1500 in the second bucket
AdtCategoryClosed1500(adt) ==
    IF adt < 750 THEN "<750"
    ELSE IF adt <= 1500 THEN "750-1500"
    ELSE IF adt <= 6000 THEN "1500-6000"
    ELSE ">6000"

\* StandardsService._get_adt_category
_get_adt_category(adt) ==
    IF adt < 750 THEN "<750"
    ELSE IF adt < 1500 THEN "750-1500"
    ELSE IF adt <= 6000 THEN "1500-6000"
    ELSE ">6000"

\* speed_data.get("aadt_ranges", {}).get(adt_category, {}).get(slope_key, {})
\*     .get(slope_category): the row, or PyNone
ClearZoneRow(speed_data, adt_category, slope_position, slope_category) ==
    LET aadt_ranges == DictGet(speed_data, "aadt_ranges", EmptyDict)
        aadt_data == DictGet(aadt_ranges, adt_category, EmptyDict)
        slope_key == IF slope_position = "foreslope" THEN "foreslopes"
                     ELSE "backslopes"
        slope_data == DictGet(aadt_data, slope_key, EmptyDict)
    IN DictGet(slope_data, slope_category, PyNone)

\* a table row as the Python mapping the callers see (min, max, and the
\* asterisk flag when the row carries one)
RowValue(row) ==
    IF "asterisk" \in DOMAIN row
    THEN [min |-> JNum(Float(row.min)), max |-> JNum(Float(row.max)),
          asterisk |-> JBool(row.asterisk)]
    ELSE [min |-> JNum(Float(row.min)), max |-> JNum(Float(row.max))]

ClearZoneNotFound(design_speed, adt_category, slope_position, slope_category) ==
    [type |-> "ValueError", msg |-> "Clear zone width not found",
     design_speed |-> design_speed, adt_category |-> adt_category,
     slope_position |-> slope_position, slope_category |-> slope_category]

ClearZoneKeys == <<"min_width", "max_width", "asterisk", "units">>

\* verification = {"structured_value": {"min": ..., "max": ...}, "method": "structured"}
RangeVerification(structured_range) ==
    [structured_value |-> [min |-> JNum(Float(structured_range.min)),
                           max |-> JNum(Float(structured_range.max))],
     method |-> "structured"]

\* the comparison of the extracted range with the row and what follows
ClearZoneCompared(svc, structured_range, units, rag_value, rag_min, rag_max, method, citation, eo) ==
    IF _matches_range(Float(structured_range.min), Float(structured_range.max),
                      rag_min, rag_max)
    THEN Return(StandardValue(RowValue(structured_range), units, "rag+structured",
                    TRUE,
                    [structured_value |-> RangeVerification(structured_range).structured_value,
                     rag_value |-> [min |-> rag_min, max |-> rag_max],
                     method |-> method],
                    citation), eo, TRUE)
    ELSE DisagreementReturn(svc,
             [min |-> rag_min, max |-> rag_max,
              asterisk |-> JBool(Truthy(DictGet(rag_value, "asterisk", JBool(FALSE))))],
             RowValue(structured_range), units,
             [structured_value |-> RangeVerification(structured_range).structured_value,
              rag_value |-> [min |-> rag_min, max |-> rag_max],
              method |-> method],
             citation, eo)

\* get_clear_zone_width after query_json returned rag_result
ClearZoneWithResult(svc, structured_range, units, rag_result, eo) ==
    IF rag_result # PyNone /\ Truthy(rag_result.raw)
    THEN ClearZoneCompared(svc, structured_range, units, rag_result.raw.d,
             _safe_float(DictGet(rag_result.raw.d, "min_width", PyNone)),
             _safe_float(DictGet(rag_result.raw.d, "max_width", PyNone)),
             rag_result.method, JList(_build_citation(rag_result)), eo)
    ELSE StructuredReturn(RowValue(structured_range), units,
                          RangeVerification(structured_range), PyNone, eo, TRUE)

\* get_clear_zone_width after the query-engine call ended with eo
ClearZoneAfterQuery(svc, structured_range, units, eo) ==
    IF eo.raised THEN Raise(OtherExc(eo.exc), eo, TRUE)
    ELSE ClearZoneWithResult(svc, structured_range, units, eo.value, eo)

\* the RAG part of get_clear_zone_width, after the row was found
ClearZoneWithRag(svc, query, structured_range, units, env) ==
    IF svc.rag_enabled /\ svc.query_engine
    THEN ClearZoneAfterQuery(svc, structured_range, units,
             query_json(svc.cache, svc.cache_file, svc.llm, query,
                        ClearZoneKeys, env))
    ELSE StructuredReturn(RowValue(structured_range), units,
                          RangeVerification(structured_range), PyNone,
                          NoEngineCall(svc), FALSE)

get_clear_zone_width(svc, design_speed, adt, slope_position, slope_category, env) ==
    LET row == TableLookup(design_speed_based, design_speed)
    IN IF ~row.found
       THEN Raise(InterpolationRequired(design_speed, design_speed_based,
                                        "clear zone"),
                  NoEngineCall(svc), FALSE)
       ELSE LET adt_category == _get_adt_category(adt)
                structured_range == ClearZoneRow(row.value, adt_category,
                                                 slope_position, slope_category)
            IN IF structured_range = PyNone
               THEN Raise(ClearZoneNotFound(design_speed, adt_category,
                                            slope_position, slope_category),
                          NoEngineCall(svc), FALSE)
               ELSE ClearZoneWithRag(svc,
                        "INDOT clear zone width for design speed "
                            \o ToString(design_speed) \o " mph, ADT "
                            \o ToString(adt) \o ", "
                            \o slope_position \o " " \o slope_category,
                        structured_range, Units, env)

----------------------------------------------------------------------------
(* roadscript/core/engine.py *)

\* calculate_k_value(length_of_curve, algebraic_diff), arguments and result
\* in hundredths: ok with K = L / |A|, or the ValueError
calculate_k_value(length_of_curve, algebraic_diff) ==
    IF length_of_curve <= 0
    THEN [ok |-> FALSE, exc |-> ValueErrorExc("Length of curve must be positive")]
    ELSE IF algebraic_diff = 0
    THEN [ok |-> FALSE, exc |-> ValueErrorExc("Algebraic difference must be non-zero")]
    ELSE [ok |-> TRUE, v |-> (length_of_curve * 100) \div Abs(algebraic_diff)]

\* the if/elif chain of evaluate_clear_zone_requirement
EngineAdtCategory(adt) ==
    IF adt < 750 THEN "<750"
    ELSE IF adt < 1500 THEN "750-1500"
    ELSE IF adt <= 6000 THEN "1500-6000"
    ELSE ">6000"

evaluate_clear_zone_requirement(svc, design_speed, adt, slope_position, slope_category) ==
    IF adt < 0
    THEN Raise(ValueErrorExc("ADT must be non-negative"), NoEngineCall(svc), FALSE)
    ELSE IF slope_position \notin {"foreslope", "backslope"}
    THEN Raise(ValueErrorExc("slope_position must be 'foreslope' or 'backslope'"),
               NoEngineCall(svc), FALSE)
    ELSE LET row == TableLookup(design_speed_based, design_speed)
         IN IF ~row.found
            THEN Raise(InterpolationRequired(design_speed, design_speed_based,
                                             "49-2.02"),
                       NoEngineCall(svc), FALSE)
            ELSE LET adt_category == EngineAdtCategory(adt)
                     width_range == ClearZoneRow(row.value, adt_category,
                                                 slope_position, slope_category)
                 IN IF width_range = PyNone
                    THEN Raise(ClearZoneNotFound(design_speed, adt_category,
                                                 slope_position, slope_category),
                               NoEngineCall(svc), FALSE)
                    ELSE Return(RowValue(width_range), NoEngineCall(svc), FALSE)

----------------------------------------------------------------------------
(* roadscript/validators/base.py *)

\* curve_type.lower().strip() on the curve types the model passes
LowerStrip(s) ==
    CASE s = " Crest" -> "crest"
      [] s = "SAG" -> "sag"
      [] OTHER -> s

validate_vertical_curve_k(svc, design_speed, curve_type, length_of_curve, algebraic_diff) ==
    LET curve_type_normalized == LowerStrip(curve_type)
    IN IF curve_type_normalized \notin {"crest", "sag"}
       THEN Raise(ValueErrorExc("curve_type must be 'crest' or 'sag'"),
                  NoEngineCall(svc), FALSE)
       ELSE LET k_values == IF curve_type_normalized = "crest"
                            THEN crest_K_values ELSE sag_K_values
                row == TableLookup(k_values, design_speed)
            IN IF ~row.found
               THEN Raise(InterpolationRequired(design_speed, k_values,
                                                "43-4.0 K-values"),
                          NoEngineCall(svc), FALSE)
               ELSE LET required_k == Float(row.value)
                        actual_k == calculate_k_value(length_of_curve, algebraic_diff)
                    IN IF ~actual_k.ok
                       THEN Raise(actual_k.exc, NoEngineCall(svc), FALSE)
                       ELSE Return([status |-> actual_k.v >= required_k,
                                    idm_reference |-> "IDM 43-4.0",
                                    actual_k |-> JNum(actual_k.v),
                                    required_k |-> JNum(required_k)],
                                   NoEngineCall(svc), FALSE)

----------------------------------------------------------------------------
(* The environment: what the vector index, the model and the file system   *)
(* can answer.                                                              *)

\* 'Design Speed\n60 830\n'
TextRadiusRow ==
    <<"D", "e", "s", "i", "g", "n", " ", "S", "p", "e", "e", "d", "\n", "6", "0", " ", "8", "3", "0", "\n">>

\* 'Design Speed\n60 151 136\n'
TextKRow ==
    <<"D", "e", "s", "i", "g", "n", " ", "S", "p", "e", "e", "d", "\n", "6", "0", " ", "1", "5", "1", " ", "1", "3", "6", "\n">>

\* '60 830.5 570.51\n'
TextNearRow ==
    <<"6", "0", " ", "8", "3", "0", ".", "5", " ", "5", "7", "0", ".", "5", "1", "\n">>

\* 'See Table 43\n'
TextNoRow ==
    <<"S", "e", "e", " ", "T", "a", "b", "l", "e", " ", "4", "3", "\n">>

\* the Chroma query result holding `texts`, nearest first
ChromaResult(texts) ==
    [documents |-> texts,
     metadatas |-> [i \in 1..Len(texts) |-> [source |-> "IDM 43-4.0"]],
     distances |-> [i \in 1..Len(texts) |-> i]]

RetrievalOutcomes ==
    {[raises |-> TRUE]}
    \cup {[raises |-> FALSE, chroma |-> ChromaResult(ts)] :
             ts \in {<<TextRadiusRow>>, <<TextKRow>>, <<TextNoRow, TextNearRow>>,
                     <<TextNoRow>>}}

\* the retrieval outcomes drawn for a clear-zone query
JsonRetrievalOutcomes ==
    {[raises |-> TRUE], [raises |-> FALSE, chroma |-> ChromaResult(<<TextNoRow>>)]}

\* responses of the model to a speed-value prompt: any JSON value
SpeedLlmResponses ==
    { JList(<<>>),
      JDict(EmptyDict),
      JDict([values |-> JList(<<JNum(83050), JNum(13600)>>)]),
      JDict([values |-> JList(<<JNum(57051)>>)]),
      JDict([values |-> JList(<<JStr("n/a"), JNum(100)>>)]) }

\* responses of the model to a clear-zone prompt: any JSON value
JsonLlmResponses ==
    { JList(<<>>),
      JDict(EmptyDict),
      JDict([min_width |-> JNum(2600), max_width |-> JNum(3050),
             asterisk |-> JBool(FALSE)]),
      JDict([min_width |-> JNum(2600), max_width |-> JNum(3100),
             asterisk |-> JNum(100)]),
      JDict([min_width |-> PyNone, max_width |-> JStr("30")]) }

\* a model call fails (transport, or json.loads of its content) or answers
LlmOutcomes(responses) ==
    {[raises |-> TRUE]} \cup {[raises |-> FALSE, raw |-> r] : r \in responses}

SpeedEnvs ==
    [retrieval : RetrievalOutcomes, llm : LlmOutcomes(SpeedLlmResponses),
     save_ok : BOOLEAN]

JsonEnvs ==
    [retrieval : JsonRetrievalOutcomes, llm : LlmOutcomes(JsonLlmResponses),
     save_ok : BOOLEAN]

\* the environment of a call that cannot reach the query engine
QuietEnv ==
    [retrieval |-> [raises |-> TRUE], llm |-> [raises |-> TRUE], save_ok |-> TRUE]

----------------------------------------------------------------------------
(* Inputs of the entry points *)

Speeds == {60, 62}
CurveTypes == {"crest", "sag", "side"}
CurveTypeInputs == CurveTypes \cup {" Crest"}

\* (adt, slope_position, slope_category)
ClearZoneInputs ==
    { <<5000, "foreslope", "6_1_or_flatter">>,
      <<8000, "backslope", "4_1_or_5_1">>,
      <<8000, "side", "4_1_or_5_1">>,
      <<5000, "foreslope", "4_1_or_5_1">>,
      <<-1, "foreslope", "6_1_or_flatter">> }

\* (length_of_curve, algebraic_diff), in hundredths
CurveInputs == { <<40000, 500>>, <<20000, -400>>, <<0, 500>>, <<40000, 0>> }

----------------------------------------------------------------------------
(* The parts of the state a specification does not exercise stay as they   *)
(* are before any object is constructed.                                   *)

CacheObjs == {"A", "B"}
Threads == {"t1", "t2"}
LoaderObjs == {"o1", "o2", "o3"}

NoExc == [type |-> "none"]
NoCall == [op |-> "none"]
Unopened == [open |-> FALSE, _cache |-> EmptyDict]
IdleSetter == [pc |-> "idle"]
NotCreated == [created |-> FALSE]
IdleConstructor == [pc |-> "idle"]

ServiceIdle ==
    /\ rag_enabled = FALSE
    /\ strict = TRUE
    /\ query_engine = FALSE
    /\ llm = FALSE
    /\ cache = EmptyDict
    /\ cache_file = NoFile
    /\ result = NoCall
    /\ completed = {}
    /\ calls = 0

CacheIdle ==
    /\ caches = [o \in CacheObjs |-> Unopened]
    /\ store = NoFile
    /\ setters = [t \in Threads |-> IdleSetter]
    /\ set_log = EmptyDict
    /\ returned = {}
    /\ last = NoCall
    /\ set_count = 0

NotCalled == [pc |-> "idle"]
NotApplied == [fn |-> "none"]

\* the store of a vector_root that holds no collection; `made` counts the
\* collections ever created in it
NoCollections == [made |-> 0, by_name |-> EmptyDict]
IndexObjs == {"v1", "v2"}
NoIndex == [created |-> FALSE]

CalcIdle ==
    /\ calc = NotApplied
    /\ _standards = PyNone

IndexIdle ==
    /\ collections = NoCollections
    /\ indexes = [v \in IndexObjs |-> NoIndex]

LibIdle ==
    /\ chunker = NotCalled
    /\ applied = NotApplied
    /\ CalcIdle
    /\ IndexIdle

LoaderIdle ==
    /\ _instance = PyNone
    /\ loaders = [o \in LoaderObjs |-> NotCreated]
    /\ constructors = [t \in Threads |-> IdleConstructor]
    /\ idm_file = "valid"
    /\ obtained = {}
    /\ file_reads = 0
    /\ loads_done = 0
    /\ late_reads = 0
    /\ constructions = 0

----------------------------------------------------------------------------
(* The service and its state *)

TriState == {"None", "True", "False"}

\* StandardsService.__init__ and QueryEngine.__init__: the fields after
\* construction.  env_rag is ROADSCRIPT_RAG_ENABLED = "true", has_key is
\* OPENAI_API_KEY being set.
ServiceInit(rag_arg, strict_arg, engine_arg, env_rag, vector_root, import_ok, has_key) ==
    LET strict0 == IF strict_arg # "None" THEN strict_arg = "True" ELSE TRUE
        rag0 == IF rag_arg # "None" THEN rag_arg = "True" ELSE env_rag
        built == rag0 /\ ~engine_arg /\ vector_root /\ import_ok
        engine == engine_arg \/ built
    IN [rag_enabled |-> IF rag0 /\ ~engine_arg THEN built ELSE rag0,
        strict |-> strict0,
        query_engine |-> engine,
        llm |-> engine /\ has_key]

Svc ==
    [rag_enabled |-> rag_enabled, strict |-> strict, query_engine |-> query_engine,
     llm |-> llm, cache |-> cache, cache_file |-> cache_file]

Init ==
    /\ \E rag_arg \in TriState, strict_arg \in TriState, engine_arg \in BOOLEAN,
          env_rag \in BOOLEAN, vector_root \in BOOLEAN, import_ok \in BOOLEAN,
          has_key \in BOOLEAN :
          LET s == ServiceInit(rag_arg, strict_arg, engine_arg, env_rag,
                               vector_root, import_ok, has_key)
          IN /\ rag_enabled = s.rag_enabled
             /\ strict = s.strict
             /\ query_engine = s.query_engine
             /\ llm = s.llm
    /\ cache_file = NoFile
    /\ cache = QueryCache_load(NoFile)
    /\ result = NoCall
    /\ completed = {}
    /\ calls = 0
    /\ CacheIdle
    /\ LoaderIdle
    /\ LibIdle

\* the environments worth drawing for the current configuration: none when
\* the engine cannot be reached, no model answer when there is no client
EnvChoices(envs) ==
    IF ~(rag_enabled /\ query_engine) THEN {QuietEnv}
    ELSE IF ~llm THEN {e \in envs : e.llm.raises}
    ELSE envs

\* the state after an entry point ended with `out`
Finish(op, args, out) ==
    /\ result' = [op |-> op, args |-> args, outcome |-> out.outcome,
                  value |-> IF out.outcome = "return" THEN out.value ELSE PyNone,
                  exc |-> IF out.outcome = "raise" THEN out.exc ELSE NoExc,
                  engine_called |-> out.engine_called,
                  key |-> out.eo.key,
                  cache_gets |-> IF out.engine_called THEN 1 ELSE 0,
                  cache_sets |-> out.eo.cache_sets,
                  retrievals |-> out.eo.retrievals,
                  llm_calls |-> out.eo.llm_calls,
                  was_cached |-> out.eo.key \in DOMAIN cache,
                  was_completed |-> out.eo.key \in completed]
    /\ cache' = out.eo.cache
    /\ cache_file' = out.eo.cache_file
    /\ completed' = IF out.engine_called /\ ~out.eo.raised
                    THEN completed \cup {out.eo.key} ELSE completed
    /\ calls' = calls + 1
    /\ UNCHANGED <<rag_enabled, strict, query_engine, llm>>
    /\ UNCHANGED <<cacheVars, loaderVars, libVars>>

\* the environments drawn for a call: one when the call does not reach the
\* query engine (`quiet` is the call's outcome under QuietEnv)
EnvsFor(quiet, envs) ==
    IF quiet.engine_called THEN EnvChoices(envs) ELSE {QuietEnv}

GetMinimumRadius ==
    /\ calls < MaxCalls
    /\ \E design_speed \in Speeds :
       \E env \in EnvsFor(get_minimum_radius(Svc, design_speed, QuietEnv), SpeedEnvs) :
          Finish("get_minimum_radius", [design_speed |-> design_speed],
                 get_minimum_radius(Svc, design_speed, env))

GetVerticalCurveK ==
    /\ calls < MaxCalls
    /\ \E design_speed \in Speeds, curve_type \in CurveTypes :
       \E env \in EnvsFor(get_vertical_curve_k(Svc, design_speed, curve_type, QuietEnv), SpeedEnvs) :
          Finish("get_vertical_curve_k",
                 [design_speed |-> design_speed, curve_type |-> curve_type],
                 get_vertical_curve_k(Svc, design_speed, curve_type, env))

GetStoppingSightDistance ==
    /\ calls < MaxCalls
    /\ \E design_speed \in Speeds :
       \E env \in EnvsFor(get_stopping_sight_distance(Svc, design_speed, QuietEnv), SpeedEnvs) :
          Finish("get_stopping_sight_distance", [design_speed |-> design_speed],
                 get_stopping_sight_distance(Svc, design_speed, env))

GetClearZoneWidth ==
    /\ calls < MaxCalls
    /\ \E design_speed \in Speeds, cz \in ClearZoneInputs :
       \E env \in EnvsFor(get_clear_zone_width(Svc, design_speed, cz[1], cz[2], cz[3], QuietEnv), JsonEnvs) :
          Finish("get_clear_zone_width",
                 [design_speed |-> design_speed, adt |-> cz[1],
                  slope_position |-> cz[2], slope_category |-> cz[3]],
                 get_clear_zone_width(Svc, design_speed, cz[1], cz[2], cz[3], env))

EvaluateClearZoneRequirement ==
    /\ calls < MaxCalls
    /\ \E design_speed \in Speeds, cz \in ClearZoneInputs :
          Finish("evaluate_clear_zone_requirement",
                 [design_speed |-> design_speed, adt |-> cz[1],
                  slope_position |-> cz[2], slope_category |-> cz[3]],
                 evaluate_clear_zone_requirement(Svc, design_speed, cz[1], cz[2], cz[3]))

ValidateVerticalCurveK ==
    /\ calls < MaxCalls
    /\ \E design_speed \in Speeds, curve_type \in CurveTypeInputs, c \in CurveInputs :
          Finish("validate_vertical_curve_k",
                 [design_speed |-> design_speed, curve_type |-> curve_type,
                  length_of_curve |-> c[1], algebraic_diff |-> c[2]],
                 validate_vertical_curve_k(Svc, design_speed, curve_type, c[1], c[2]))

Next ==
    \/ GetMinimumRadius
    \/ GetVerticalCurveK
    \/ GetStoppingSightDistance
    \/ GetClearZoneWidth
    \/ EvaluateClearZoneRequirement
    \/ ValidateVerticalCurveK

Spec == Init /\ [][Next]_vars

----------------------------------------------------------------------------
(* QueryCache objects sharing one file (roadscript/ai/cache.py)            *)

CacheKeys == {"k1", "k2"}

\* payloads as QueryResult.as_dict and the miss record produce them
CachePayloads ==
    { MissPayload,
      [values |-> JList(<<JNum(Float(830))>>), method |-> "regex",
       snippets |-> <<>>, raw |-> PyNone] }

\* QueryCache(path): the object after __init__ on the file `file`
QueryCache_init(file) == [open |-> TRUE, _cache |-> QueryCache_load(file)]

\* the files a cache may find when it is first opened
InitialStores ==
    {NoFile, QueryCache_save(DictSet(EmptyDict, "k2", MissPayload))}

(* One cache object, one caller: set, get, and a second object opened on   *)
(* the same path.                                                          *)

InitCacheSeq ==
    /\ ServiceIdle
    /\ LoaderIdle
    /\ LibIdle
    /\ \E file \in InitialStores :
          /\ store = file
          /\ caches = [o \in CacheObjs |->
                          IF o = "A" THEN QueryCache_init(file) ELSE Unopened]
    /\ setters = [t \in Threads |-> IdleSetter]
    /\ set_log = EmptyDict
    /\ returned = {}
    /\ last = [op |-> "open", key |-> "", payload |-> PyNone,
               set_returned |-> FALSE, reopened |-> FALSE,
               got_key |-> "", got |-> PyNone]
    /\ set_count = 0

\* the state after caches["A"].set(key, payload) ended with `s`
SetDone(key, payload, s) ==
    /\ caches' = [caches EXCEPT !["A"]._cache = s.cache]
    /\ store' = s.cache_file
    /\ set_log' = (key :> payload) @@ set_log
    /\ returned' = IF s.raised THEN returned ELSE returned \cup {key}
    /\ last' = [op |-> "set", key |-> key, payload |-> payload,
                set_returned |-> ~s.raised, reopened |-> FALSE,
                got_key |-> "", got |-> PyNone]
    /\ set_count' = set_count + 1
    /\ UNCHANGED <<setters, serviceVars, loaderVars, libVars>>

CacheSet ==
    /\ set_count < MaxSets
    /\ \E key \in CacheKeys, payload \in CachePayloads, save_ok \in BOOLEAN :
          SetDone(key, payload,
                  QueryCache_set(caches["A"]._cache, store, key, payload, save_ok))

CacheGet ==
    /\ \E key \in CacheKeys :
          last' = [last EXCEPT !.op = "get", !.got_key = key,
                               !.got = QueryCache_get(caches["A"]._cache, key)]
    /\ UNCHANGED <<caches, store, setters, set_log, returned, set_count>>
    /\ UNCHANGED <<serviceVars, loaderVars, libVars>>

CacheReopen ==
    /\ caches' = [caches EXCEPT !["B"] = QueryCache_init(store)]
    /\ last' = [last EXCEPT !.op = "reopen", !.reopened = TRUE]
    /\ UNCHANGED <<store, setters, set_log, returned, set_count>>
    /\ UNCHANGED <<serviceVars, loaderVars, libVars>>

NextCacheSeq ==
    \/ CacheSet
    \/ CacheGet
    \/ CacheReopen

SpecCacheSeq == InitCacheSeq /\ [][NextCacheSeq]_vars

(* Two threads calling set, on one object or on two objects opened on the  *)
(* same path.  A set is `self._cache[key] = payload`, then in _save the    *)
(* json.dumps of the mapping, then the write of the text.                  *)

InitCacheConc ==
    /\ ServiceIdle
    /\ LoaderIdle
    /\ LibIdle
    /\ CacheIdle

OpenCache(o) ==
    /\ ~caches[o].open
    /\ caches' = [caches EXCEPT ![o] = QueryCache_init(store)]
    /\ UNCHANGED <<store, setters, set_log, returned, last, set_count>>
    /\ UNCHANGED <<serviceVars, loaderVars, libVars>>

\* self._cache[key] = payload
SetAssign(t) ==
    /\ setters[t].pc = "idle"
    /\ set_count < MaxSets
    /\ \E o \in CacheObjs, key \in CacheKeys, payload \in CachePayloads :
          /\ caches[o].open
          /\ caches' = [caches EXCEPT ![o]._cache = DictSet(@, key, payload)]
          /\ setters' = [setters EXCEPT ![t] = [pc |-> "save", obj |-> o, key |-> key]]
          /\ set_log' = (key :> payload) @@ set_log
    /\ set_count' = set_count + 1
    /\ UNCHANGED <<store, returned, last>>
    /\ UNCHANGED <<serviceVars, loaderVars, libVars>>

\* json.dumps(self._cache, ...)
SaveDumps(t) ==
    /\ setters[t].pc = "save"
    /\ setters' = [setters EXCEPT ![t] =
                      [pc |-> "write", obj |-> @.obj, key |-> @.key,
                       data |-> JsonDumps(caches[@.obj]._cache)]]
    /\ UNCHANGED <<caches, store, set_log, returned, last, set_count>>
    /\ UNCHANGED <<serviceVars, loaderVars, libVars>>

\* self.path.write_text(...), and set returns
SaveWrite(t) ==
    /\ setters[t].pc = "write"
    /\ store' = [exists |-> TRUE, text |-> setters[t].data]
    /\ returned' = returned \cup {setters[t].key}
    /\ setters' = [setters EXCEPT ![t] = IdleSetter]
    /\ UNCHANGED <<caches, set_log, last, set_count>>
    /\ UNCHANGED <<serviceVars, loaderVars, libVars>>

NextCacheConc ==
    \/ \E o \in CacheObjs : OpenCache(o)
    \/ \E t \in Threads : SetAssign(t)
    \/ \E t \in Threads : SaveDumps(t)
    \/ \E t \in Threads : SaveWrite(t)

SpecCacheConc == InitCacheConc /\ [][NextCacheConc]_vars

----------------------------------------------------------------------------
(* StandardsLoader construction (roadscript/standards/loader.py)           *)

FileStates == {"missing", "invalid", "valid"}

\* self._standards: the instance attribute when one was assigned, else the
\* class attribute StandardsLoader._standards, which nothing assigns
AttrStandards(o) ==
    IF "_standards" \in DOMAIN loaders[o] THEN loaders[o]._standards ELSE PyNone

\* an object not yet handed out by object.__new__
FreshObj == CHOOSE o \in LoaderObjs : ~loaders[o].created

InitLoader ==
    /\ ServiceIdle
    /\ CacheIdle
    /\ LibIdle
    /\ _instance = PyNone
    /\ loaders = [o \in LoaderObjs |-> NotCreated]
    /\ constructors = [t \in Threads |-> IdleConstructor]
    /\ idm_file \in FileStates
    /\ obtained = {}
    /\ file_reads = 0
    /\ loads_done = 0
    /\ late_reads = 0
    /\ constructions = 0

\* a thread calls StandardsLoader()
Construct(t) ==
    /\ constructors[t].pc = "idle"
    /\ constructions < MaxConstructions
    /\ constructions' = constructions + 1
    /\ constructors' = [constructors EXCEPT ![t] = [pc |-> "new_test"]]
    /\ UNCHANGED <<_instance, loaders, idm_file, obtained, file_reads,
                   loads_done, late_reads>>
    /\ UNCHANGED <<serviceVars, cacheVars, libVars>>

\* __new__: if cls._instance is None
NewTest(t) ==
    /\ constructors[t].pc = "new_test"
    /\ constructors' = [constructors EXCEPT ![t] =
                           [pc |-> IF _instance = PyNone THEN "new_create"
                                   ELSE "new_return"]]
    /\ UNCHANGED <<_instance, loaders, idm_file, obtained, file_reads,
                   loads_done, late_reads, constructions>>
    /\ UNCHANGED <<serviceVars, cacheVars, libVars>>

\* __new__: cls._instance = super().__new__(cls)
NewCreate(t) ==
    /\ constructors[t].pc = "new_create"
    /\ _instance' = [ref |-> FreshObj]
    /\ loaders' = [loaders EXCEPT ![FreshObj] = [created |-> TRUE]]
    /\ constructors' = [constructors EXCEPT ![t] = [pc |-> "new_return"]]
    /\ UNCHANGED <<idm_file, obtained, file_reads, loads_done, late_reads,
                   constructions>>
    /\ UNCHANGED <<serviceVars, cacheVars, libVars>>

\* __new__: return cls._instance
NewReturn(t) ==
    /\ constructors[t].pc = "new_return"
    /\ constructors' = [constructors EXCEPT ![t] =
                           [pc |-> "init_test", self |-> _instance.ref]]
    /\ UNCHANGED <<_instance, loaders, idm_file, obtained, file_reads,
                   loads_done, late_reads, constructions>>
    /\ UNCHANGED <<serviceVars, cacheVars, libVars>>

\* __init__: if self._standards is None
InitTest(t) ==
    /\ constructors[t].pc = "init_test"
    /\ constructors' = [constructors EXCEPT ![t] =
                           [pc |-> IF AttrStandards(@.self) = PyNone THEN "load"
                                   ELSE "return",
                            self |-> @.self]]
    /\ UNCHANGED <<_instance, loaders, idm_file, obtained, file_reads,
                   loads_done, late_reads, constructions>>
    /\ UNCHANGED <<serviceVars, cacheVars, libVars>>

\* _load_standards: FileNotFoundError, or the read and then ValueError or
\* self._standards = json.load(f), a new dict
LoadStandards(t) ==
    /\ constructors[t].pc = "load"
    /\ file_reads' = IF idm_file = "missing" THEN file_reads ELSE file_reads + 1
    /\ late_reads' = IF idm_file # "missing" /\ loads_done > 0
                     THEN late_reads + 1 ELSE late_reads
    /\ loads_done' = IF idm_file = "valid" THEN loads_done + 1 ELSE loads_done
    /\ loaders' = IF idm_file = "valid"
                  THEN [loaders EXCEPT ![constructors[t].self] =
                           [created |-> TRUE,
                            _standards |-> [table |-> loads_done + 1]]]
                  ELSE loaders
    /\ constructors' = [constructors EXCEPT ![t] =
                           IF idm_file = "valid"
                           THEN [pc |-> "return", self |-> @.self]
                           ELSE [pc |-> "raise", self |-> @.self,
                                 exc |-> IF idm_file = "missing"
                                         THEN "FileNotFoundError" ELSE "ValueError"]]
    /\ UNCHANGED <<_instance, idm_file, obtained, constructions>>
    /\ UNCHANGED <<serviceVars, cacheVars, libVars>>

\* StandardsLoader() returns the instance to its caller
ConstructReturn(t) ==
    /\ constructors[t].pc = "return"
    /\ obtained' = obtained \cup
           {[instance |-> [ref |-> constructors[t].self],
             table |-> AttrStandards(constructors[t].self)]}
    /\ constructors' = [constructors EXCEPT ![t] = IdleConstructor]
    /\ UNCHANGED <<_instance, loaders, idm_file, file_reads, loads_done,
                   late_reads, constructions>>
    /\ UNCHANGED <<serviceVars, cacheVars, libVars>>

\* StandardsLoader() raises to its caller
ConstructRaise(t) ==
    /\ constructors[t].pc = "raise"
    /\ constructors' = [constructors EXCEPT ![t] = IdleConstructor]
    /\ UNCHANGED <<_instance, loaders, idm_file, obtained, file_reads,
                   loads_done, late_reads, constructions>>
    /\ UNCHANGED <<serviceVars, cacheVars, libVars>>

\* the deployment replaces idm_standards.json
ReplaceFile ==
    /\ \E f \in FileStates \ {idm_file} : idm_file' = f
    /\ UNCHANGED <<_instance, loaders, constructors, obtained, file_reads,
                   loads_done, late_reads, constructions>>
    /\ UNCHANGED <<serviceVars, cacheVars, libVars>>

NextLoader ==
    \/ \E t \in Threads : Construct(t)
    \/ \E t \in Threads : NewTest(t)
    \/ \E t \in Threads : NewCreate(t)
    \/ \E t \in Threads : NewReturn(t)
    \/ \E t \in Threads : InitTest(t)
    \/ \E t \in Threads : LoadStandards(t)
    \/ \E t \in Threads : ConstructReturn(t)
    \/ \E t \in Threads : ConstructRaise(t)
    \/ ReplaceFile

SpecLoader == InitLoader /\ [][NextLoader]_vars

----------------------------------------------------------------------------
(* Properties of the resolution functions (specification Spec)             *)

ResolutionOps ==
    {"get_minimum_radius", "get_vertical_curve_k",
     "get_stopping_sight_distance", "get_clear_zone_width"}

LookupOps ==
    ResolutionOps \cup {"evaluate_clear_zone_requirement", "validate_vertical_curve_k"}

\* the last call was a resolution function; it returned
Resolving == result.op \in ResolutionOps
Resolved == Resolving /\ result.outcome = "return"
RagOn == rag_enabled /\ query_engine

\* the table the last call reads
CallTable ==
    CASE result.op = "get_minimum_radius" -> design_speed_radius
      [] result.op = "get_stopping_sight_distance" -> design_speed_ssd
      [] result.op = "get_vertical_curve_k" ->
            IF result.args.curve_type = "crest" THEN crest_K_values ELSE sag_K_values
      [] result.op = "validate_vertical_curve_k" ->
            IF LowerStrip(result.args.curve_type) = "crest"
            THEN crest_K_values ELSE sag_K_values
      [] OTHER -> design_speed_based

SpeedInTable == ToString(result.args.design_speed) \in DOMAIN CallTable

ClearZoneOps == {"get_clear_zone_width", "evaluate_clear_zone_requirement"}

\* the clear-zone row of the last call's arguments, or PyNone
CallRow ==
    ClearZoneRow(design_speed_based[ToString(result.args.design_speed)],
                 _get_adt_category(result.args.adt),
                 result.args.slope_position, result.args.slope_category)

\* the table holds an entry for the last call's arguments
HasEntry == SpeedInTable /\ (result.op \in ClearZoneOps => CallRow # PyNone)

\* the table entry as the callers see it
TableValue ==
    IF result.op \in ClearZoneOps THEN RowValue(CallRow)
    ELSE JNum(CallTable[ToString(result.args.design_speed)] * 100)

\* what the query engine holds for the last call's query, when it holds it
Payload == cache[result.key]
HasPayload == result.engine_called /\ result.key \in DOMAIN cache

\* position of the value compared, in the extracted list
ValuePosition ==
    IF result.op = "get_vertical_curve_k" /\ result.args.curve_type # "crest"
    THEN 2 ELSE 1

\* an extracted value exists for the last call
HasExtracted ==
    /\ HasPayload
    /\ IF result.op = "get_clear_zone_width"
       THEN Truthy(Payload.raw)
       ELSE Truthy(Payload.values) /\ Len(Payload.values.items) >= ValuePosition

ExtractedScalar == Payload.values.items[ValuePosition]
ExtractedMin == DictGet(Payload.raw.d, "min_width", PyNone)
ExtractedMax == DictGet(Payload.raw.d, "max_width", PyNone)

\* a number within 0.5 of the table number n (both in hundredths)
IsNumber(j) == j.t = "num" \/ (j.t = "str" /\ j.s \in NumericStrings)
NumberOf(j) == IF j.t = "num" THEN j.v ELSE PyInt(j.s) * 100
WithinHalf(n, j) ==
    IsNumber(j) /\ NumberOf(j) - n <= 100 \div 2 /\ n - NumberOf(j) <= 100 \div 2

\* the extracted value agrees with the table entry
Agrees ==
    IF result.op = "get_clear_zone_width"
    THEN /\ WithinHalf(CallRow.min * 100, ExtractedMin)
         /\ WithinHalf(CallRow.max * 100, ExtractedMax)
    ELSE WithinHalf(CallTable[ToString(result.args.design_speed)] * 100,
                    ExtractedScalar)

\* the extracted value as a result carries it
ExtractedValue ==
    IF result.op = "get_clear_zone_width"
    THEN [min |-> IF IsNumber(ExtractedMin) THEN JNum(NumberOf(ExtractedMin)) ELSE PyNone,
          max |-> IF IsNumber(ExtractedMax) THEN JNum(NumberOf(ExtractedMax)) ELSE PyNone,
          asterisk |-> JBool(Truthy(DictGet(Payload.raw.d, "asterisk", JBool(FALSE))))]
    ELSE ExtractedScalar

\* C1: with RAG disabled or no query engine, a resolution function called
\* with arguments the table has an entry for returns source "structured",
\* verified, the exact table entry, and makes no retrieval, no model call
\* and no cache access.
C1_StructuredWhenRagOff ==
    (Resolving /\ ~RagOn /\ HasEntry) =>
        /\ result.outcome = "return"
        /\ result.value.source = "structured"
        /\ result.value.verified = TRUE
        /\ result.value.value = TableValue
        /\ ~result.engine_called
        /\ result.retrievals = 0
        /\ result.llm_calls = 0
        /\ result.cache_gets = 0
        /\ result.cache_sets = 0

C1_Witness ==
    /\ Resolved /\ ~RagOn /\ HasEntry
    /\ result.op = "get_clear_zone_width"
    /\ result.value.value = [min |-> JNum(2600), max |-> JNum(3000)]
    /\ calls = 2

\* an absent speed ends in StandardInterpolationRequiredError naming the
\* requested speed and the available speeds in ascending order
InterpolationRaised ==
    /\ result.outcome = "raise"
    /\ result.exc.type = "StandardInterpolationRequiredError"
    /\ result.exc.design_speed = result.args.design_speed
    /\ {result.exc.available[i] : i \in 1..Len(result.exc.available)}
          = {PyInt(k) : k \in DOMAIN CallTable}
    /\ Len(result.exc.available) = Cardinality(DOMAIN CallTable)
    /\ \A i \in 1..(Len(result.exc.available) - 1) :
          result.exc.available[i] < result.exc.available[i + 1]
    /\ ~result.engine_called

\* the argument checks an entry point makes before its table lookup pass
ArgumentsChecked ==
    /\ result.op = "evaluate_clear_zone_requirement" =>
          result.args.adt >= 0
          /\ result.args.slope_position \in {"foreslope", "backslope"}
    /\ result.op = "validate_vertical_curve_k" =>
          LowerStrip(result.args.curve_type) \in {"crest", "sag"}

\* C2 as stated: every lookup entry point called with a design speed absent
\* from its table raises StandardInterpolationRequiredError.
C2_AbsentSpeedAlwaysInterpolation ==
    (result.op \in LookupOps /\ ~SpeedInTable) => InterpolationRaised

\* C2: a lookup entry point called with a design speed absent from its table
\* never returns a value, whatever the RAG and strict settings; it raises
\* StandardInterpolationRequiredError naming the speed and the ascending
\* available speeds, without calling the query engine, unless an argument
\* check that precedes the lookup (negative ADT or unknown slope position in
\* evaluate_clear_zone_requirement, unknown curve type in
\* validate_vertical_curve_k) fails first with ValueError.
C2_AbsentSpeedRaises ==
    (result.op \in LookupOps /\ ~SpeedInTable) =>
        /\ result.outcome = "raise"
        /\ ~result.engine_called
        /\ IF ArgumentsChecked THEN InterpolationRaised
           ELSE result.exc.type = "ValueError"

C2_Witness ==
    /\ result.op = "get_stopping_sight_distance"
    /\ ~SpeedInTable /\ RagOn /\ ~strict
    /\ InterpolationRaised
    /\ result.exc.available = <<30, 60>>
    /\ cache # EmptyDict

\* C3: with strict = TRUE no resolution function returns "rag_unverified",
\* verified = FALSE or a value other than the table entry; when an extracted
\* value disagrees, the result is the structured one and the verification
\* record carries the extracted value.
C3_StrictNeverUnverified ==
    (Resolved /\ strict) =>
        /\ result.value.source \in {"structured", "rag+structured"}
        /\ result.value.verified = TRUE
        /\ result.value.value = TableValue
        /\ (HasExtracted /\ ~Agrees) =>
              /\ result.value.source = "structured"
              /\ "rag_value" \in DOMAIN result.value.verification
              /\ IF result.op = "get_clear_zone_width"
                 THEN result.value.verification.rag_value
                         = [min |-> ExtractedValue.min, max |-> ExtractedValue.max]
                 ELSE result.value.verification.rag_value = ExtractedValue

C3_Witness ==
    /\ Resolved /\ strict /\ RagOn
    /\ HasExtracted /\ ~Agrees
    /\ result.was_cached
    /\ result.value.source = "structured"

\* C4: a result is "rag+structured" exactly when an extracted value exists
\* and lies within 0.5 of the table entry, bounds included (first value for
\* crest, second for sag; both bounds of a range, a missing or non-numeric
\* bound disagreeing); it is then verified and carries the table entry.
C4_AgreementWithinTolerance ==
    Resolved =>
        /\ result.value.source = "rag+structured" <=> (HasExtracted /\ Agrees)
        /\ result.value.source = "rag+structured" =>
              result.value.verified = TRUE /\ result.value.value = TableValue

\* agreement at exactly 0.5: the table has 830, the extracted value is 830.5
C4_Witness ==
    /\ Resolved /\ result.op = "get_minimum_radius"
    /\ HasExtracted /\ ExtractedScalar = JNum(83050)
    /\ result.value.source = "rag+structured"
    /\ result.value.value = JNum(83000)

\* C5: a result is "rag_unverified" exactly when strict = FALSE and an
\* extracted value exists and disagrees; it is unverified exactly then, and
\* it carries the extracted value and the citation of the snippets.
C5_UnverifiedOnlyWhenLenient ==
    Resolved =>
        /\ result.value.source = "rag_unverified"
              <=> (~strict /\ HasExtracted /\ ~Agrees)
        /\ result.value.verified = FALSE <=> result.value.source = "rag_unverified"
        /\ result.value.source = "rag_unverified" =>
              /\ result.value.value = ExtractedValue
              /\ result.value.citation # PyNone
              /\ Len(result.value.citation.items)
                    = Min(2, Len(Payload.snippets))
              /\ \A i \in 1..Len(result.value.citation.items) :
                    result.value.citation.items[i].excerpt = Payload.snippets[i]["text"]

C5_Witness ==
    /\ Resolved /\ ~strict
    /\ result.op = "get_clear_zone_width"
    /\ HasExtracted /\ ~Agrees
    /\ result.value.source = "rag_unverified"
    /\ result.value.value.max = JNum(3100)

\* C6 as stated: with RAG enabled and an entry in the table, a resolution
\* function returns the structured result whatever fails on the enhancement
\* path; no exception reaches the caller.
C6_FailuresAbsorbed ==
    (Resolving /\ RagOn /\ HasEntry) => result.outcome = "return"

\* C7 as stated: once a query-engine call with given parameters has
\* completed, a later call with the same parameters makes no retrieval and
\* no model call.
C7_CompletedServedFromCache ==
    (result.op # "none" /\ result.engine_called /\ result.was_completed) =>
        result.retrievals = 0 /\ result.llm_calls = 0

----------------------------------------------------------------------------
(* Properties of QueryCache (specifications SpecCacheConc and SpecCacheSeq)*)

SettersIdle == \A t \in Threads : setters[t].pc = "idle"

\* the keys the shared file holds
StoredKeys == IF store.exists THEN {p[1] : p \in store.text} ELSE {}

\* C8 as stated: whatever the interleaving of concurrent set operations on
\* one cache file, once all of them have completed the file holds every key
\* that was set.
C8_NoLostUpdate ==
    SettersIdle => returned \subseteq StoredKeys

\* the entry the file holds for key k
StoredEntry(k) == (CHOOSE p \in store.text : p[1] = k)[2]

\* C9: when a set(key, payload) on a cache has returned, the file holds
\* exactly the in-memory mapping, which maps key to payload and every key set
\* before to its latest payload; get(key) returns payload, and a QueryCache
\* opened afterwards on the same path returns the same payload for key.
C9_SetPersistsImmediately ==
    (last # NoCall /\ last.set_returned) =>
        /\ store.exists
        /\ StoredKeys = DOMAIN caches["A"]._cache
        /\ \A k \in StoredKeys : StoredEntry(k) = caches["A"]._cache[k]
        /\ caches["A"]._cache[last.key] = last.payload
        /\ \A k \in DOMAIN set_log : caches["A"]._cache[k] = set_log[k]
        /\ (last.op = "get" /\ last.got_key = last.key) => last.got = last.payload
        /\ last.reopened =>
              /\ caches["B"].open
              /\ QueryCache_get(caches["B"]._cache, last.key) = last.payload

\* a second object, opened after three sets of which the last overwrote a
\* key, reads the latest payload back
C9_Witness ==
    /\ last # NoCall /\ last.set_returned /\ last.reopened
    /\ set_count = MaxSets
    /\ Cardinality(DOMAIN set_log) = 2
    /\ last.payload # MissPayload
    /\ QueryCache_get(caches["B"]._cache, last.key) = last.payload

----------------------------------------------------------------------------
(* Properties of StandardsLoader (specification SpecLoader)                *)

\* C10 as stated: whatever the interleaving of StandardsLoader() calls,
\* every caller obtains the same instance and the same table object, and the
\* file is not read again once a load has succeeded.
C10_OneInstanceOneLoad ==
    /\ \A a \in obtained, b \in obtained :
          a.instance = b.instance /\ a.table = b.table
    /\ late_reads = 0

\* C11 as stated: loading is all-or-nothing. When the only StandardsLoader()
\* call made so far ends by raising (file absent or unparseable), the loader
\* state is as before the call: no instance cached in the class and no table
\* cached in any instance.
C11_FailedLoadCachesNothing ==
    \A t \in Threads :
        (constructors[t].pc = "raise" /\ constructions = 1)
            => /\ _instance = PyNone
               /\ \A o \in LoaderObjs : AttrStandards(o) = PyNone

\* ---------------------------------------------------------------------
\* roadscript/ai/chunking.py: chunk_text, one loop iteration per step
\* ---------------------------------------------------------------------
MaxWords == 5
MaxSize == 3
MaxOverlap == 3
\* the model keeps the first MaxChunks chunks of the list
MaxChunks == MaxWords

Max(a, b) == IF a >= b THEN a ELSE b

Whitespace == {" "}
Letters == <<"a", "b", "c", "d", "e", "f", "g">>
Spaces(k) == [i \in 1..k |-> " "]
\* the i-th word of a text over m different letters
Word(i, m) ==
    IF i % 2 = 0 THEN <<Letters[((i - 1) % m) + 1], Letters[((i - 1) % m) + 1]>>
    ELSE <<Letters[((i - 1) % m) + 1]>>

RECURSIVE TextBody(_, _, _)
TextBody(n, sep, m) ==
    IF n = 0 THEN <<>>
    ELSE IF n = 1 THEN Word(1, m)
    ELSE TextBody(n - 1, sep, m) \o Spaces(sep) \o Word(n, m)

Texts ==
    {Spaces(pad) \o TextBody(n, sep, m) \o Spaces(pad) :
        n \in 0..MaxWords, sep \in {1, 2}, pad \in {0, 1}, m \in {1, Len(Letters)}}

\* str.split(): the maximal runs of non-whitespace characters, in order
RECURSIVE SplitFrom(_, _, _, _)
SplitFrom(text, i, cur, acc) ==
    IF i > Len(text) THEN (IF cur = <<>> THEN acc ELSE Append(acc, cur))
    ELSE IF text[i] \in Whitespace
         THEN SplitFrom(text, i + 1, <<>>,
                        IF cur = <<>> THEN acc ELSE Append(acc, cur))
         ELSE SplitFrom(text, i + 1, Append(cur, text[i]), acc)

PySplit(text) == SplitFrom(text, 1, <<>>, <<>>)

\* " ".join(words)
RECURSIVE JoinSpace(_)
JoinSpace(words) ==
    IF words = <<>> THEN <<>>
    ELSE IF Len(words) = 1 THEN words[1]
    ELSE words[1] \o <<" ">> \o JoinSpace(Tail(words))

\* words[start:end]
Slice(words, start, end) == SubSeq(words, start + 1, end)

ChunkAdvanceNoOverlap(end, overlap) == end

\* start = max(0, end - overlap)
ChunkAdvance(end, overlap) == Max(0, end - overlap)

Appended(chunks, chunk) ==
    IF Len(chunks) < MaxChunks THEN Append(chunks, chunk) ELSE chunks

\* the body of `while start < len(words)`, with end already computed
ChunkStep(c, end) ==
    [c EXCEPT !.chunks = Appended(@, JoinSpace(Slice(c.words, c.start, end))),
              !.pc = IF end = Len(c.words) THEN "done" ELSE "loop",
              !.start = IF end = Len(c.words) THEN @
                        ELSE ChunkAdvance(end, c.overlap)]

InitChunk ==
    /\ ServiceIdle
    /\ CacheIdle
    /\ LoaderIdle
    /\ applied = NotApplied
    /\ CalcIdle
    /\ IndexIdle
    /\ \E text \in Texts, chunk_size \in 1..MaxSize, overlap \in 0..MaxOverlap :
          chunker = [pc |-> "call", text |-> text, chunk_size |-> chunk_size,
                     overlap |-> overlap, words |-> <<>>, start |-> 0,
                     chunks |-> <<>>]

\* words = text.split(); if not words: return []; chunks = []; start = 0
ChunkCall ==
    /\ chunker.pc = "call"
    /\ chunker' = [chunker EXCEPT
                      !.words = PySplit(chunker.text),
                      !.pc = IF PySplit(chunker.text) = <<>> THEN "done"
                             ELSE "loop"]
    /\ UNCHANGED <<serviceVars, cacheVars, loaderVars, applied, calcVars, indexVars>>

\* while start < len(words)
ChunkTest ==
    /\ chunker.pc = "loop"
    /\ chunker' = [chunker EXCEPT
                      !.pc = IF chunker.start < Len(chunker.words) THEN "body"
                             ELSE "done"]
    /\ UNCHANGED <<serviceVars, cacheVars, loaderVars, applied, calcVars, indexVars>>

\* end = min(...); chunks.append(...); break at the end, else move start
ChunkIterate ==
    /\ chunker.pc = "body"
    /\ chunker' = ChunkStep(chunker, Min(chunker.start + chunker.chunk_size,
                                         Len(chunker.words)))
    /\ UNCHANGED <<serviceVars, cacheVars, loaderVars, applied, calcVars, indexVars>>

NextChunk == ChunkCall \/ ChunkTest \/ ChunkIterate

\* a call that has started keeps running
SpecChunk == InitChunk /\ [][NextChunk]_vars /\ WF_vars(NextChunk)

\* C12 as stated: chunk_text terminates for every text, chunk_size >= 1 and
\* overlap >= 0, overlap >= chunk_size included: every call returns.
C12_ChunkTextTerminates == <>(chunker.pc = "done")

\* the word positions (1-based) of the k-th window (k from 0) of the spec:
\* words[k * (chunk_size - overlap) : k * (chunk_size - overlap) + chunk_size]
WindowPositions(k) ==
    {i \in 1..Len(chunker.words) :
        /\ k * (chunker.chunk_size - chunker.overlap) < i
        /\ i <= k * (chunker.chunk_size - chunker.overlap) + chunker.chunk_size}

WindowWords(k) ==
    Slice(chunker.words, k * (chunker.chunk_size - chunker.overlap),
          Min(k * (chunker.chunk_size - chunker.overlap) + chunker.chunk_size,
              Len(chunker.words)))

ChunkReturned == chunker.pc = "done" /\ chunker.overlap < chunker.chunk_size

\* C13: with overlap < chunk_size the returned chunks are the windows
\* words[k*(size-overlap) : k*(size-overlap)+size] joined by one space, where
\* words are the whitespace-separated tokens of the text; every word is in
\* at least one chunk; consecutive chunks share exactly `overlap` words; only
\* the final chunk may hold fewer than chunk_size words; a text that is empty
\* or all whitespace gives the empty list.
C13_WindowsCoverWithOverlap ==
    ChunkReturned =>
        /\ chunker.words = PySplit(chunker.text)
        /\ (chunker.words = <<>>) => (chunker.chunks = <<>>)
        /\ \A k \in 1..Len(chunker.chunks) :
              chunker.chunks[k] = JoinSpace(WindowWords(k - 1))
        /\ \A i \in 1..Len(chunker.words) :
              \E k \in 1..Len(chunker.chunks) : i \in WindowPositions(k - 1)
        /\ \A k \in 1..(Len(chunker.chunks) - 1) :
              /\ Len(PySplit(chunker.chunks[k])) = chunker.chunk_size
              /\ Cardinality(WindowPositions(k - 1) \cap WindowPositions(k))
                     = chunker.overlap
              /\ SubSeq(PySplit(chunker.chunks[k]),
                        chunker.chunk_size - chunker.overlap + 1,
                        chunker.chunk_size)
                 = SubSeq(PySplit(chunker.chunks[k + 1]), 1, chunker.overlap)

C13_Witness ==
    /\ ChunkReturned
    /\ chunker.overlap >= 1
    /\ Len(chunker.chunks) >= 2
    /\ Len(PySplit(chunker.chunks[Len(chunker.chunks)])) < chunker.chunk_size
    /\ Len(chunker.text) > Len(JoinSpace(chunker.words))

\* ---------------------------------------------------------------------
\* Library functions applied to drawn arguments
\* ---------------------------------------------------------------------

\* ClearZoneCalculator._get_adt_category
ClearZoneCalculator_get_adt_category(adt) ==
    IF adt < 750 THEN "<750"
    ELSE IF adt < 1500 THEN "750-1500"
    ELSE IF adt <= 6000 THEN "1500-6000"
    ELSE ">6000"

\* the ADT check of evaluate_clear_zone_requirement and then its bucketing
\* (the design speed being in the table)
EngineBucket(adt) ==
    IF adt < 0 THEN "ValueError" ELSE EngineAdtCategory(adt)

\* the ADT check of InputValidator.validate_clear_zone_inputs and then the
\* bucketing of ClearZoneCalculator.calculate (the other inputs being valid)
CalculateBucket(adt) ==
    IF adt < 0 THEN "ValueError" ELSE ClearZoneCalculator_get_adt_category(adt)

\* the bucketing of StandardsService.get_clear_zone_width (the design speed
\* being in the table): no check precedes it
WidthBucket(adt) == _get_adt_category(adt)

AdtInputs ==
    {-100, -1, 0, 1, 749, 750, 751, 1499, 1500, 1501, 6000, 6001, 7000}

Bucketings == {"_get_adt_category", "ClearZoneCalculator._get_adt_category",
               "evaluate_clear_zone_requirement", "calculate",
               "get_clear_zone_width"}

Bucketed(name, adt) ==
    CASE name = "_get_adt_category" -> _get_adt_category(adt)
      [] name = "ClearZoneCalculator._get_adt_category" ->
            ClearZoneCalculator_get_adt_category(adt)
      [] name = "evaluate_clear_zone_requirement" -> EngineBucket(adt)
      [] name = "calculate" -> CalculateBucket(adt)
      [] OTHER -> WidthBucket(adt)

NoOutputs == [k \in {} |-> ""]

\* '60.5 830 570\n'
TextDecimalFirst ==
    <<"6", "0", ".", "5", " ", "8", "3", "0", " ", "5", "7", "0", "\n">>

\* '2 for 60 mph\n60 830 570\n'
TextFootnote ==
    <<"2", " ", "f", "o", "r", " ", "6", "0", " ", "m", "p", "h", "\n", "6",
      "0", " ", "8", "3", "0", " ", "5", "7", "0", "\n">>

\* '160 999 998\n'
TextOtherSpeed ==
    <<"1", "6", "0", " ", "9", "9", "9", " ", "9", "9", "8", "\n">>

\* '60 830\n'
TextShortRow ==
    <<"6", "0", " ", "8", "3", "0", "\n">>

ExtractTexts ==
    {TextRadiusRow, TextKRow, TextNearRow, TextNoRow, TextDecimalFirst,
     TextFootnote, TextOtherSpeed, TextShortRow}

\* the snippet lists handed to _extract_speed_values, nearest first
SnippetLists ==
    {retrieve(ChromaResult(ts)) :
        ts \in {<<a>> : a \in ExtractTexts}
               \cup {<<a, b>> : a \in ExtractTexts, b \in ExtractTexts}}

\* responses of the model to a speed-value prompt, of every shape
FallbackResponses ==
    SpeedLlmResponses
    \cup { JDict([values |-> JNum(50000)]),
           JDict([values |-> JList(<<PyNone, JNum(10000)>>)]),
           JDict([values |-> JList(<<JNum(83000), JNum(13600), JNum(700)>>)]) }

\* the back ends of a query_speed_value call whose retrieval finds no table
\* row and whose model answers `raw`
FallbackEnv(raw) ==
    [retrieval |-> [raises |-> FALSE, chroma |-> ChromaResult(<<TextNoRow>>)],
     llm |-> [raises |-> FALSE, raw |-> raw], save_ok |-> TRUE]

FallbackQuery == "q"

\* ---- roadscript/core/geometry.py: calculate_vertical_curve_length ----

Truncate1(h) == h - (h % 10)

\* round(x, 1) of x hundredths, in hundredths: to the nearest tenth, an
\* exact tie to the even tenth
Round1(h) ==
    IF h % 10 < 5 THEN h - (h % 10)
    ELSE IF h % 10 > 5 THEN h - (h % 10) + 10
    ELSE IF ((h - 5) \div 10) % 2 = 0 THEN h - 5
    ELSE h + 5

\* the range checks of InputValidator.validate_geometry_inputs with the
\* default ranges: design speed in [0, 100], grade in [-15, 15]
validate_geometry_inputs(design_speed, grade) ==
    /\ 0 <= design_speed /\ design_speed <= 100
    /\ -1500 <= grade /\ grade <= 1500

CurveResult(ok, exc, curve_length, k_value, grade_difference) ==
    [ok |-> ok, exc |-> exc, curve_length |-> curve_length,
     k_value |-> k_value, grade_difference |-> grade_difference]

\* the part of calculate_vertical_curve_length after validation
CurveLengthFrom(row, grade_difference) ==
    IF ~row.found
    THEN CurveResult(FALSE, "StandardInterpolationRequiredError", 0, 0, 0)
    ELSE CurveResult(TRUE, "", Round1(row.value * Abs(grade_difference)),
                     row.value, Abs(grade_difference))

\* GeometryCalculator.calculate_vertical_curve_length; grades and lengths
\* in hundredths
calculate_vertical_curve_length(design_speed, grade_difference, curve_type) ==
    IF ~validate_geometry_inputs(design_speed, Abs(grade_difference))
    THEN CurveResult(FALSE, "ValueError", 0, 0, 0)
    ELSE CurveLengthFrom(
             TableLookup(IF curve_type = "crest" THEN crest_K_values
                         ELSE sag_K_values, design_speed),
             grade_difference)

GradeInputs == {400, -400, 200, 333, -333, 3, 1600}
FactorInputs == {2, 3}
CurveSpeeds == {45, 60, 62}

\* the grade passed in the application named `which`
GradeOf(a, which) ==
    CASE which = "g" -> a.grade_difference
      [] which = "neg" -> 0 - a.grade_difference
      [] OTHER -> a.factor * a.grade_difference

\* ---- the specification of the library functions ----

InitLib ==
    /\ ServiceIdle
    /\ CacheIdle
    /\ LoaderIdle
    /\ chunker = NotCalled
    /\ CalcIdle
    /\ IndexIdle
    /\ \/ \E adt \in AdtInputs :
             applied = [fn |-> "bucket", adt |-> adt, out |-> NoOutputs]
       \/ \E snippets \in SnippetLists, value_count \in {1, 2} :
             applied = [fn |-> "_extract_speed_values", snippets |-> snippets,
                        speed |-> 60, value_count |-> value_count,
                        done |-> FALSE, out |-> PyNone]
       \/ \E raw \in FallbackResponses, value_count \in {1, 2} :
             applied = [fn |-> "query_speed_value", raw |-> raw,
                        speed |-> 60, value_count |-> value_count,
                        done |-> FALSE, out |-> PyNone]
       \/ \E design_speed \in CurveSpeeds, grade_difference \in GradeInputs,
             factor \in FactorInputs, curve_type \in {"crest", "sag"} :
             applied = [fn |-> "calculate_vertical_curve_length",
                        design_speed |-> design_speed,
                        grade_difference |-> grade_difference,
                        factor |-> factor, curve_type |-> curve_type,
                        out |-> <<>>]

\* one of the bucketing entry points is applied to the drawn ADT
Bucket(name) ==
    /\ applied.fn = "bucket"
    /\ name \notin DOMAIN applied.out
    /\ applied' = [applied EXCEPT
                      !.out = @ @@ (name :> Bucketed(name, applied.adt))]
    /\ UNCHANGED <<serviceVars, cacheVars, loaderVars, chunker, calcVars, indexVars>>

ServiceGetAdtCategory == Bucket("_get_adt_category")
CalculatorGetAdtCategory == Bucket("ClearZoneCalculator._get_adt_category")
EvaluateBucket == Bucket("evaluate_clear_zone_requirement")
CalculatorCalculate == Bucket("calculate")
ServiceWidthBucket == Bucket("get_clear_zone_width")

ExtractSpeedValues ==
    /\ applied.fn = "_extract_speed_values"
    /\ ~applied.done
    /\ applied' = [applied EXCEPT
                      !.done = TRUE,
                      !.out = _extract_speed_values(applied.snippets,
                                  applied.speed, applied.value_count)]
    /\ UNCHANGED <<serviceVars, cacheVars, loaderVars, chunker, calcVars, indexVars>>

\* query_speed_value on an empty cache, with a model client
QuerySpeedValue ==
    /\ applied.fn = "query_speed_value"
    /\ ~applied.done
    /\ applied' = [applied EXCEPT
                      !.done = TRUE,
                      !.out = query_speed_value(EmptyDict, NoFile, TRUE,
                                  FallbackQuery, applied.speed,
                                  applied.value_count, TRUE,
                                  FallbackEnv(applied.raw))]
    /\ UNCHANGED <<serviceVars, cacheVars, loaderVars, chunker, calcVars, indexVars>>

\* calculate_vertical_curve_length applied to g, to -g and to factor * g
CalculateVerticalCurveLength ==
    /\ applied.fn = "calculate_vertical_curve_length"
    /\ \E which \in {"g", "neg", "scaled"} \ DOMAIN applied.out :
          applied' = [applied EXCEPT
                         !.out = @ @@ (which :>
                             calculate_vertical_curve_length(
                                 applied.design_speed, GradeOf(applied, which),
                                 applied.curve_type))]
    /\ UNCHANGED <<serviceVars, cacheVars, loaderVars, chunker, calcVars, indexVars>>

NextLib ==
    \/ ServiceGetAdtCategory
    \/ CalculatorGetAdtCategory
    \/ EvaluateBucket
    \/ CalculatorCalculate
    \/ ServiceWidthBucket
    \/ ExtractSpeedValues
    \/ QuerySpeedValue
    \/ CalculateVerticalCurveLength

SpecLib == InitLib /\ [][NextLib]_vars

\* ---- properties of the library functions ----

\* the traffic counts of each bucket of the standard, within the counts drawn
BucketRange(category) ==
    CASE category = "<750" -> {n \in AdtInputs : 0 <= n /\ n < 750}
      [] category = "750-1500" -> {n \in AdtInputs : 750 <= n /\ n < 1500}
      [] category = "1500-6000" -> {n \in AdtInputs : 1500 <= n /\ n <= 6000}
      [] category = ">6000" -> {n \in AdtInputs : n > 6000}
      [] OTHER -> {}

BoundaryBuckets ==
    (749 :> "<750" @@ 750 :> "750-1500" @@ 1499 :> "750-1500"
     @@ 1500 :> "1500-6000" @@ 6000 :> "1500-6000" @@ 6001 :> ">6000")

BucketImplementations ==
    {"_get_adt_category", "ClearZoneCalculator._get_adt_category",
     "evaluate_clear_zone_requirement"}

C15_NegativeAdtRejected ==
    (applied.fn = "bucket" /\ applied.adt < 0) =>
        \A f \in DOMAIN applied.out : applied.out[f] = "ValueError"

\* a numeric token that equals the speed exactly: 60 or 60.0, not 60.5
TokenIsSpeed(tok, speed) ==
    /\ DigitsValue(tok.int) = speed
    /\ \A i \in 1..Len(tok.frac) : tok.frac[i] = "0"

\* a line that qualifies as the statement has it, given its numeric tokens
Qualifies(line, tokens, speed, value_count) ==
    /\ PatternSearch(speed, line)
    /\ tokens # <<>>
    /\ TokenIsSpeed(tokens[1], speed)
    /\ Len(tokens) >= value_count + 1

FollowingValues(tokens, value_count) ==
    JList([k \in 1..value_count |-> JNum(TokenFloat(tokens[k + 1]))])

\* the values of the first qualifying line, or PyNone
RECURSIVE FirstOfQualifying(_, _, _)
FirstOfQualifying(lines, speed, value_count) ==
    IF lines = <<>> THEN PyNone
    ELSE IF Qualifies(lines[1], FindTokens(lines[1], 1), speed, value_count)
    THEN FollowingValues(FindTokens(lines[1], 1), value_count)
    ELSE FirstOfQualifying(Tail(lines), speed, value_count)

\* C16 as stated: _extract_speed_values returns the value_count numeric
\* tokens after the first token of the first line, in snippet order and then
\* line order, that holds the speed as a standalone token, whose first
\* numeric token equals the speed exactly and that has value_count further
\* numeric tokens; it returns nothing when there is no such line.
C16_FirstTokenEqualsSpeed ==
    (applied.fn = "_extract_speed_values" /\ applied.done) =>
        applied.out = FirstOfQualifying(AllLines(applied.snippets),
                                        applied.speed, applied.value_count)

\* a response the fallback may accept: a mapping whose `values` is a list
\* with at least value_count entries, the first value_count of them numbers
Acceptable(raw, value_count) ==
    /\ raw.t = "dict"
    /\ "values" \in DOMAIN raw.d
    /\ raw.d["values"].t = "list"
    /\ Len(raw.d["values"].items) >= value_count
    /\ \A k \in 1..value_count : raw.d["values"].items[k].t = "num"

\* C17 as stated: the fallback returns a result only for an acceptable
\* response, built from its first value_count entries; for every other
\* response shape the call returns nothing, records a miss under the cache
\* key, and does not raise.
C17_MalformedResponseIsMiss ==
    (applied.fn = "query_speed_value" /\ applied.done) =>
        IF Acceptable(applied.raw, applied.value_count)
        THEN /\ ~applied.out.raised
             /\ applied.out.value # PyNone
             /\ applied.out.value.method = "llm"
             /\ applied.out.value.values
                  = JList(SubSeq(applied.raw.d["values"].items, 1,
                                 applied.value_count))
        ELSE /\ ~applied.out.raised
             /\ applied.out.value = PyNone
             /\ applied.out.cache[applied.out.key] = MissPayload

\* the K-value of the table for a speed and curve type
KValue(design_speed, curve_type) ==
    IF curve_type = "crest" THEN crest_K_values[ToString(design_speed)]
    ELSE sag_K_values[ToString(design_speed)]

Returned(which) == which \in DOMAIN applied.out /\ applied.out[which].ok

\* K x |g| in hundredths, for the grade of the application `which`
ExactLength(which) ==
    KValue(applied.design_speed, applied.curve_type) * Abs(GradeOf(applied, which))

\* C20 as stated, for the scaling: the length for factor * g is factor
\* times the length for g.
C20_LengthExactlyLinear ==
    (applied.fn = "calculate_vertical_curve_length"
        /\ Returned("g") /\ Returned("scaled"))
        => applied.out["scaled"].curve_length
             = applied.factor * applied.out["g"].curve_length

\* C20, amended: a returned curve_length is K x |g| rounded to one decimal
\* place (a whole number of tenths within 0.05 of K x |g|) and
\* grade_difference is |g|; g and -g give the same result (60, crest,
\* g = 4.0 or -4.0: 604.0 and 4.0); the length for factor * g is within
\* 0.05 x (factor + 1) of factor times the length for g, and equal to it
\* when K x |g| has no second decimal.
C20_LengthIsRoundedProduct ==
    applied.fn = "calculate_vertical_curve_length" =>
        /\ \A which \in DOMAIN applied.out :
              applied.out[which].ok =>
                 /\ applied.out[which].k_value
                      = KValue(applied.design_speed, applied.curve_type)
                 /\ applied.out[which].curve_length % 10 = 0
                 /\ Abs(applied.out[which].curve_length - ExactLength(which)) <= 5
                 /\ applied.out[which].grade_difference
                      = Abs(GradeOf(applied, which))
        /\ ({"g", "neg"} \subseteq DOMAIN applied.out)
              => applied.out["g"] = applied.out["neg"]
        /\ (applied.design_speed = 60 /\ applied.curve_type = "crest"
               /\ Abs(applied.grade_difference) = 400 /\ Returned("neg"))
              => /\ applied.out["neg"].curve_length = 60400
                 /\ applied.out["neg"].grade_difference = 400
        /\ (Returned("g") /\ Returned("scaled"))
              => /\ Abs(applied.out["scaled"].curve_length
                          - applied.factor * applied.out["g"].curve_length)
                       <= 5 * (applied.factor + 1)
                 /\ ExactLength("g") % 10 = 0
                       => applied.out["scaled"].curve_length
                            = applied.factor * applied.out["g"].curve_length

C20_Witness ==
    /\ applied.fn = "calculate_vertical_curve_length"
    /\ Returned("g") /\ Returned("neg") /\ Returned("scaled")
    /\ applied.grade_difference < 0
    /\ ExactLength("g") % 10 # 0
    /\ applied.out["scaled"].curve_length
         # applied.factor * applied.out["g"].curve_length

\* ---- the verification record of a resolution ----

Verification == result.value.verification

\* the structured value as the verification record carries it
RecordedStructured ==
    IF result.op = "get_clear_zone_width"
    THEN [min |-> JNum(CallRow.min * 100), max |-> JNum(CallRow.max * 100)]
    ELSE TableValue

\* the extracted value as the verification record carries it
RecordedExtracted ==
    IF result.op = "get_clear_zone_width"
    THEN [min |-> ExtractedValue.min, max |-> ExtractedValue.max]
    ELSE ExtractedValue

\* C19 as stated: every returned StandardValue carries a verification
\* record holding the structured value, the extracted value and a method
\* among structured, regex, llm, cache.
C19_VerificationAlwaysComplete ==
    Resolved =>
        /\ {"structured_value", "rag_value", "method"} \subseteq DOMAIN Verification
        /\ Verification.method \in {"structured", "regex", "llm", "cache"}

\* C19, amended: every returned StandardValue carries a verification record
\* holding the structured value and a method among structured, regex, llm,
\* cache.  The record holds the extracted value (rag_value) exactly when an
\* extracted value existed and was compared, and then the method is the one
\* the extraction result carries (for a cache hit, the method stored with
\* it); with RAG disabled, no engine, a miss or a cached miss there is no
\* rag_value and the method is "structured".
C19_VerificationRecord ==
    Resolved =>
        /\ {"structured_value", "method"} \subseteq DOMAIN Verification
        /\ Verification.structured_value = RecordedStructured
        /\ Verification.method \in {"structured", "regex", "llm", "cache"}
        /\ ("rag_value" \in DOMAIN Verification) <=> HasExtracted
        /\ HasExtracted =>
              /\ Verification.rag_value = RecordedExtracted
              /\ Verification.method = Payload.method
        /\ ~HasExtracted => Verification.method = "structured"

C19_Witness ==
    /\ Resolved /\ RagOn
    /\ HasExtracted
    /\ result.was_cached
    /\ result.op = "get_vertical_curve_k"
    /\ Verification.method = "regex"
    /\ "rag_value" \in DOMAIN Verification

\* the step is a resolution that returns, made right after a returned
\* resolution with the same function and arguments
RepeatedResolution ==
    /\ Resolved
    /\ Resolved'
    /\ result'.op = result.op
    /\ result'.args = result.args

\* C18 as stated: two successive resolutions with identical parameters
\* return the same StandardValue.value and use the same cache key, whatever
\* the configuration, the cache and the back ends do.
C18_RepeatedResolutionSame ==
    [][RepeatedResolution =>
          /\ result'.value.value = result.value.value
          /\ result'.key = result.key]_vars

----------------------------------------------------------------------------
(* The domain calculators (core/geometry.py, core/clear_zones.py) with the *)
(* input validators and compliance checks they call                        *)
(* (validation/validators.py).  Radii, distances and widths are the        *)
(* table's integers; grades and curve lengths are in hundredths.           *)

\* StandardsLoader._standards after _load_standards: the tables
LoadedStandards ==
    [design_speed_radius |-> design_speed_radius,
     crest_K_values |-> crest_K_values,
     sag_K_values |-> sag_K_values,
     design_speed_ssd |-> design_speed_ssd,
     design_speed_based |-> design_speed_based]

\* rules.get("design_speed_range", [0, 100])
design_speed_range == <<0, 100>>
\* rules.get("grade_range", [-15, 15]), in hundredths of a percent
grade_range == <<-1500, 1500>>
\* validation_rules.clear_zones.valid_slope_categories
valid_slope_categories ==
    {"6_1_or_flatter", "5_1_or_4_1", "4_1_or_5_1", "3_1"}

\* "<what> <value> is outside valid range (<lo>-<hi>)"
OutsideRange(constraint, value, range) ==
    [constraint |-> constraint, text |-> "is outside valid range",
     value |-> value, lo |-> range[1], hi |-> range[2]]

\* "ADT must be a non-negative number, got: <adt>"
NegativeAdt(adt) ==
    [constraint |-> "adt", text |-> "must be a non-negative number",
     value |-> adt, lo |-> 0]

\* "Invalid slope_category: <given>. Must be one of: <allowed>"
InvalidSlopeCategory(given) ==
    [constraint |-> "slope_category", text |-> "Invalid slope_category",
     given |-> given, allowed |-> valid_slope_categories]

InRange(value, range) == range[1] <= value /\ value <= range[2]

\* InputValidator.validate_geometry_inputs: the error list (every field the
\* rules require is always supplied by the calculators)
validate_geometry_inputs_errors(inputs) ==
    (IF "design_speed" \in DOMAIN inputs
           /\ ~InRange(inputs.design_speed, design_speed_range)
     THEN <<OutsideRange("design_speed", inputs.design_speed,
                         design_speed_range)>>
     ELSE <<>>)
    \o (IF "grade" \in DOMAIN inputs /\ ~InRange(inputs.grade, grade_range)
        THEN <<OutsideRange("grade", inputs.grade, grade_range)>>
        ELSE <<>>)

\* InputValidator.validate_clear_zone_inputs: the error list.  There is no
\* check of slope_position.
validate_clear_zone_inputs(inputs) ==
    (IF ~InRange(inputs.design_speed, design_speed_range)
     THEN <<OutsideRange("design_speed", inputs.design_speed,
                         design_speed_range)>>
     ELSE <<>>)
    \o (IF inputs.slope_category \notin valid_slope_categories
        THEN <<InvalidSlopeCategory(inputs.slope_category)>>
        ELSE <<>>)
    \o (IF inputs.adt < 0 THEN <<NegativeAdt(inputs.adt)>> ELSE <<>>)

\* an object created by the call itself (a list or dict literal)
FreshObject(name) == [kind |-> "fresh", name |-> name]

\* the dict object of one row of the clear-zone table
RowObject(speed_key, adt_category, slope_key, slope_category) ==
    [kind |-> "row", speed_key |-> speed_key, adt_category |-> adt_category,
     slope_key |-> slope_key, slope_category |-> slope_category]

\* target[key] = ..., target.append(...), target.update({key: ...})
Store(target, key) == [target |-> target, key |-> key]

\* errors = []; errors.append(...) for each violated constraint
ErrorStores(errors) ==
    [i \in 1..Len(errors) |-> Store(FreshObject("errors"), i)]

\* what a calculator call leaves behind: how it ended, the message of the
\* exception, the number of table reads made, the component the table was
\* read through, the returned bundle and the stores it made into objects
CalcRaise(exc, text, errors, available, lookups, stores) ==
    [outcome |-> "raise", exc |-> exc, text |-> text, errors |-> errors,
     available |-> available, lookups |-> lookups,
     through |-> "StandardsLoader", bundle |-> PyNone, stores |-> stores]

CalcReturn(bundle, lookups, stores) ==
    [outcome |-> "return", exc |-> "", text |-> "", errors |-> <<>>,
     available |-> <<>>, lookups |-> lookups,
     through |-> "StandardsLoader", bundle |-> bundle, stores |-> stores]

\* raise ValueError(f"Input validation failed: {'; '.join(errors)}")
ValidationFailed(errors) ==
    CalcRaise("ValueError", "Input validation failed", errors, <<>>, 0,
              ErrorStores(errors))

\* raise StandardInterpolationRequiredError("Design speed ... not found ...
\* Available speeds: [...]")
SpeedNotFound(table) ==
    CalcRaise("StandardInterpolationRequiredError", "not found",
              <<>>, AvailableSpeeds(table), 1, <<>>)

\* ComplianceChecker.check_geometry_compliance: the issues
check_geometry_compliance(std, inputs, calculated_values) ==
    IF "minimum_radius" \in DOMAIN calculated_values
          /\ inputs.design_speed # 0
          /\ ToString(inputs.design_speed) \in DOMAIN std.design_speed_radius
          /\ std.design_speed_radius[ToString(inputs.design_speed)] # 0
          /\ calculated_values.minimum_radius
                < std.design_speed_radius[ToString(inputs.design_speed)]
    THEN <<"Calculated radius is below minimum standard">>
    ELSE <<>>

IssueStores(issues) ==
    [i \in 1..Len(issues) |-> Store(FreshObject("issues"), i)]

\* results = {...}: the keys stored into the new dict
BundleStores(bundle) ==
    [i \in 1..Cardinality(DOMAIN bundle) |-> Store(FreshObject("results"), i)]

\* return results, after `issues` were collected
ReturnBundle(bundle, issues) ==
    CalcReturn(bundle, 1, IssueStores(issues) \o BundleStores(bundle))

\* the end of a geometry calculation: compliance check and result bundle
GeometryResults(std, inputs, calculated_values, bundle) ==
    LET issues == check_geometry_compliance(std, inputs, calculated_values)
    IN ReturnBundle(bundle @@ [compliant |-> issues = <<>>,
                               warnings |-> issues, units |-> "feet"],
                    issues)

\* the part of calculate_minimum_radius after the lookup (the bundle's
\* superelevation_max, friction_factor and standards_version, copied from
\* the standards file, are left out)
RadiusFrom(std, inputs, row) ==
    IF ~row.found THEN SpeedNotFound(std.design_speed_radius)
    ELSE GeometryResults(std, inputs, [minimum_radius |-> row.value],
             [minimum_radius |-> row.value,
              design_speed |-> PyInt(row.speed_key)])

\* a calculation that reads the table without validating first
RadiusLookupFirst(std, design_speed) ==
    RadiusFrom(std, [design_speed |-> design_speed],
               TableLookup(std.design_speed_radius, design_speed))

\* GeometryCalculator.calculate_minimum_radius
calculate_minimum_radius(std, design_speed) ==
    IF validate_geometry_inputs_errors([design_speed |-> design_speed]) # <<>>
    THEN ValidationFailed(
             validate_geometry_inputs_errors([design_speed |-> design_speed]))
    ELSE RadiusFrom(std, [design_speed |-> design_speed],
                    TableLookup(std.design_speed_radius, design_speed))

\* the part of calculate_stopping_sight_distance after the lookup
SsdFrom(std, inputs, row) ==
    IF ~row.found THEN SpeedNotFound(std.design_speed_ssd)
    ELSE GeometryResults(std, inputs, [stopping_sight_distance |-> row.value],
             [stopping_sight_distance |-> row.value,
              design_speed |-> PyInt(row.speed_key)])

\* GeometryCalculator.calculate_stopping_sight_distance
calculate_stopping_sight_distance(std, design_speed) ==
    IF validate_geometry_inputs_errors([design_speed |-> design_speed]) # <<>>
    THEN ValidationFailed(
             validate_geometry_inputs_errors([design_speed |-> design_speed]))
    ELSE SsdFrom(std, [design_speed |-> design_speed],
                 TableLookup(std.design_speed_ssd, design_speed))

\* the K-value table calculate_vertical_curve_length reads for a curve type
CurveTable(std, curve_type) ==
    IF curve_type = "crest" THEN std.crest_K_values ELSE std.sag_K_values

\* the part of calculate_vertical_curve_length after the lookup
CurveFrom(std, inputs, grade_difference, k_values, row) ==
    IF ~row.found THEN SpeedNotFound(k_values)
    ELSE GeometryResults(std, inputs,
             [curve_length |-> Round1(row.value * Abs(grade_difference))],
             [curve_length |-> Round1(row.value * Abs(grade_difference)),
              k_value |-> row.value,
              design_speed |-> PyInt(row.speed_key),
              grade_difference |-> Abs(grade_difference),
              curve_type |-> inputs.curve_type])

\* GeometryCalculator.calculate_vertical_curve_length with its result bundle
VerticalCurveLength(std, design_speed, grade_difference, curve_type) ==
    LET inputs == [design_speed |-> design_speed,
                   grade |-> Abs(grade_difference),
                   curve_type |-> curve_type]
    IN IF validate_geometry_inputs_errors(inputs) # <<>>
       THEN ValidationFailed(validate_geometry_inputs_errors(inputs))
       ELSE CurveFrom(std, inputs, grade_difference,
                      CurveTable(std, curve_type),
                      TableLookup(CurveTable(std, curve_type), design_speed))

\* ComplianceChecker.check_clear_zone_compliance(inputs, calculated_width):
\* `calculated_width <= 0` and `calculated_width < 7` are defined for a
\* number and raise TypeError for a mapping
check_clear_zone_compliance(calculated_width) ==
    IF calculated_width.t # "num"
    THEN [raised |-> TRUE, exc |-> "TypeError", issues |-> <<>>]
    ELSE [raised |-> FALSE, exc |-> "",
          issues |->
             (IF calculated_width.v <= 0
              THEN <<"Clear zone width must be positive">> ELSE <<>>)
             \o (IF calculated_width.v < Float(7)
                 THEN <<"below typical minimum of 7 ft">> ELSE <<>>)]

\* the argument ClearZoneCalculator.calculate passes as calculated_width:
\* the row itself
ComplianceArgument(width_range) == JDict(width_range)

\* results = {"min_width": width_range.get("min"), ...}
ClearZoneResults(inputs, speed_key, adt_category, width_range, compliance) ==
    IF compliance.raised
    THEN CalcRaise(compliance.exc, "'<=' not supported", <<>>, <<>>, 1, <<>>)
    ELSE ReturnBundle(
             [min_width |-> DictGet(width_range, "min", PyNone),
              max_width |-> DictGet(width_range, "max", PyNone),
              asterisk |-> DictGet(width_range, "asterisk", FALSE),
              design_speed |-> PyInt(speed_key),
              adt |-> inputs.adt,
              adt_category |-> adt_category,
              slope_position |-> inputs.slope_position,
              slope_category |-> inputs.slope_category,
              compliant |-> compliance.issues = <<>>,
              warnings |-> compliance.issues,
              units |-> "feet"],
             compliance.issues)

\* the part of ClearZoneCalculator.calculate after the row lookup
ClearZoneFromRow(inputs, speed_key, adt_category, width_range) ==
    IF width_range = PyNone
    THEN CalcRaise("ValueError", "Could not find clear zone width",
                   <<>>, <<>>, 1, <<>>)
    ELSE ClearZoneResults(inputs, speed_key, adt_category, width_range,
             check_clear_zone_compliance(ComplianceArgument(width_range)))

\* the part of ClearZoneCalculator.calculate after validation
ClearZoneFrom(std, inputs, adt_category, row) ==
    IF ~row.found THEN SpeedNotFound(std.design_speed_based)
    ELSE ClearZoneFromRow(inputs, row.speed_key, adt_category,
             ClearZoneRow(row.value, adt_category, inputs.slope_position,
                          inputs.slope_category))

\* ClearZoneCalculator.calculate
ClearZoneCalculator_calculate(std, design_speed, adt, slope_position, slope_category) ==
    LET inputs == [design_speed |-> design_speed, adt |-> adt,
                   slope_position |-> slope_position,
                   slope_category |-> slope_category]
    IN IF validate_clear_zone_inputs(inputs) # <<>>
       THEN ValidationFailed(validate_clear_zone_inputs(inputs))
       ELSE ClearZoneFrom(std, inputs,
                ClearZoneCalculator_get_adt_category(adt),
                TableLookup(std.design_speed_based, design_speed))

\* the table after one store: only a store into an object of the table
\* changes it
ApplyStore(std, st) ==
    IF st.target.kind # "row" THEN std
    ELSE [std EXCEPT
            !.design_speed_based[st.target.speed_key]
                .aadt_ranges[st.target.adt_category][st.target.slope_key]
                [st.target.slope_category] = (st.key :> TRUE) @@ @]

RECURSIVE ApplyStores(_, _)
ApplyStores(std, stores) ==
    IF stores = <<>> THEN std
    ELSE ApplyStores(ApplyStore(std, Head(stores)), Tail(stores))

\* a structured value that is no object of the table (a number, or nothing)
PlainValue(name) == [kind |-> "value", name |-> name]

\* a verification record that is the structured value's own object
VerificationIsStructured(structured) == structured

\* the object StandardsService fills as `verification`: a new dict
VerificationObject(structured) == FreshObject("verification")

\* verification = {"structured_value": ..., "method": "structured"} in a
\* resolution that found its table entry
ServiceStores(structured, out) ==
    IF out.outcome = "raise" /\ ~out.engine_called THEN <<>>
    ELSE <<Store(VerificationObject(structured), "structured_value"),
           Store(VerificationObject(structured), "method")>>

\* the row get_clear_zone_width and evaluate_clear_zone_requirement read
\* for their arguments, as an object of the table
RowRead(std, design_speed, adt, slope_position, slope_category) ==
    IF ToString(design_speed) \notin DOMAIN std.design_speed_based
    THEN PlainValue("none")
    ELSE RowObject(ToString(design_speed), _get_adt_category(adt),
                   IF slope_position = "foreslope" THEN "foreslopes"
                   ELSE "backslopes", slope_category)

CalcSpeedInputs == {-5, 55, 60, 62, 200}
CalcGradeInputs == {400, -400, 1600}
CalcCurveTypes == {"crest", "sag", "parabolic"}
CalcAdtInputs == {-100, 5000, 8000}
SlopePositions == {"foreslope", "backslope", "median"}
SlopeCategories == {"6_1_or_flatter", "4_1_or_5_1", "5_1_or_4_1", "2_1"}

\* ---- the specification of the calculators ----

InitCalc ==
    /\ ServiceIdle
    /\ CacheIdle
    /\ LoaderIdle
    /\ chunker = NotCalled
    /\ applied = NotApplied
    /\ IndexIdle
    /\ calc = NotApplied
    /\ _standards = LoadedStandards

\* the state after a call ended with `out`, having made `stores`
CalcFinish(fn, args, out, stores) ==
    /\ calc' = [fn |-> fn, args |-> args, out |-> out]
    /\ _standards' = ApplyStores(_standards, stores)
    /\ UNCHANGED <<serviceVars, cacheVars, loaderVars, chunker, applied,
                   indexVars>>

CalcDone(fn, args, out) == CalcFinish(fn, args, out, out.stores)

CalculateMinimumRadius ==
    \E design_speed \in CalcSpeedInputs :
       CalcDone("calculate_minimum_radius", [design_speed |-> design_speed],
                calculate_minimum_radius(_standards, design_speed))

CalculateStoppingSightDistance ==
    \E design_speed \in CalcSpeedInputs :
       CalcDone("calculate_stopping_sight_distance",
                [design_speed |-> design_speed],
                calculate_stopping_sight_distance(_standards, design_speed))

CalculateCurveLength ==
    \E design_speed \in CalcSpeedInputs, grade_difference \in CalcGradeInputs,
       curve_type \in CalcCurveTypes :
       CalcDone("calculate_vertical_curve_length",
                [design_speed |-> design_speed,
                 grade_difference |-> grade_difference,
                 curve_type |-> curve_type],
                VerticalCurveLength(_standards, design_speed,
                                    grade_difference, curve_type))

ClearZoneCalculate ==
    \E design_speed \in CalcSpeedInputs, adt \in CalcAdtInputs,
       slope_position \in SlopePositions, slope_category \in SlopeCategories :
       CalcDone("ClearZoneCalculator.calculate",
                [design_speed |-> design_speed, adt |-> adt,
                 slope_position |-> slope_position,
                 slope_category |-> slope_category],
                ClearZoneCalculator_calculate(_standards, design_speed, adt,
                                              slope_position, slope_category))

\* StandardsService.get_vertical_curve_k of a service without RAG
ServiceVerticalCurveK ==
    \E design_speed \in CalcSpeedInputs, curve_type \in CalcCurveTypes :
       CalcFinish("get_vertical_curve_k",
                  [design_speed |-> design_speed, curve_type |-> curve_type],
                  get_vertical_curve_k(Svc, design_speed, curve_type, QuietEnv),
                  ServiceStores(PlainValue("k_value"),
                      get_vertical_curve_k(Svc, design_speed, curve_type,
                                           QuietEnv)))

\* StandardsService.get_clear_zone_width of a service without RAG
ServiceClearZoneWidth ==
    \E design_speed \in CalcSpeedInputs, adt \in CalcAdtInputs,
       slope_position \in SlopePositions, slope_category \in SlopeCategories :
       CalcFinish("get_clear_zone_width",
                  [design_speed |-> design_speed, adt |-> adt,
                   slope_position |-> slope_position,
                   slope_category |-> slope_category],
                  get_clear_zone_width(Svc, design_speed, adt, slope_position,
                                       slope_category, QuietEnv),
                  ServiceStores(
                      RowRead(_standards, design_speed, adt, slope_position,
                              slope_category),
                      get_clear_zone_width(Svc, design_speed, adt,
                                           slope_position, slope_category,
                                           QuietEnv)))

\* core.engine.evaluate_clear_zone_requirement: it returns the row and
\* stores nothing
EngineClearZoneRequirement ==
    \E design_speed \in CalcSpeedInputs, adt \in CalcAdtInputs,
       slope_position \in SlopePositions, slope_category \in SlopeCategories :
       CalcFinish("evaluate_clear_zone_requirement",
                  [design_speed |-> design_speed, adt |-> adt,
                   slope_position |-> slope_position,
                   slope_category |-> slope_category],
                  evaluate_clear_zone_requirement(Svc, design_speed, adt,
                                                  slope_position,
                                                  slope_category),
                  <<>>)

NextCalc ==
    \/ CalculateMinimumRadius
    \/ CalculateStoppingSightDistance
    \/ CalculateCurveLength
    \/ ClearZoneCalculate
    \/ ServiceVerticalCurveK
    \/ ServiceClearZoneWidth
    \/ EngineClearZoneRequirement

SpecCalc == InitCalc /\ [][NextCalc]_vars

----------------------------------------------------------------------------
(* Properties of the calculators *)

Calculators ==
    {"calculate_minimum_radius", "calculate_stopping_sight_distance",
     "calculate_vertical_curve_length", "ClearZoneCalculator.calculate"}

CalculatorCall == calc.fn \in Calculators

\* the declared constraints that the arguments of the call violate
ViolatedConstraints ==
    {c \in {"design_speed"} :
        calc.args.design_speed < 0 \/ calc.args.design_speed > 100}
    \cup {c \in {"grade"} :
            /\ calc.fn = "calculate_vertical_curve_length"
            /\ Abs(calc.args.grade_difference) > 1500}
    \cup {c \in {"adt"} :
            calc.fn = "ClearZoneCalculator.calculate" /\ calc.args.adt < 0}
    \cup {c \in {"slope_category"} :
            /\ calc.fn = "ClearZoneCalculator.calculate"
            /\ calc.args.slope_category \notin valid_slope_categories}

\* the error names its constraint's value and what is allowed
CitesAllowed(e) ==
    CASE e.constraint = "design_speed" ->
            e.value = calc.args.design_speed /\ e.lo = 0 /\ e.hi = 100
      [] e.constraint = "grade" ->
            /\ e.value = Abs(calc.args.grade_difference)
            /\ e.lo = -1500 /\ e.hi = 1500
      [] e.constraint = "adt" -> e.value = calc.args.adt /\ e.lo = 0
      [] OTHER -> /\ e.given = calc.args.slope_category
                  /\ e.allowed = valid_slope_categories

\* C21: in every calculator an argument outside its declared range (design
\* speed, grade, ADT; also a slope category outside the declared list) makes
\* the call raise ValueError "Input validation failed: ..." whose message
\* lists exactly the violated constraints, each with the offending value and
\* what is allowed; the table is not read (no lookup, hence no
\* interpolation-required error) and no result is returned.
C21_ValidationPrecedesLookup ==
    (CalculatorCall /\ ViolatedConstraints # {}) =>
        /\ calc.out.outcome = "raise"
        /\ calc.out.exc = "ValueError"
        /\ calc.out.text = "Input validation failed"
        /\ Len(calc.out.errors) = Cardinality(ViolatedConstraints)
        /\ {calc.out.errors[i].constraint : i \in DOMAIN calc.out.errors}
              = ViolatedConstraints
        /\ \A i \in DOMAIN calc.out.errors : CitesAllowed(calc.out.errors[i])
        /\ calc.out.lookups = 0
        /\ calc.out.bundle = PyNone

C21_Witness ==
    /\ calc.fn = "calculate_vertical_curve_length"
    /\ calc.args.design_speed = 200
    /\ calc.args.grade_difference = 1600
    /\ calc.out.outcome = "raise"
    /\ Len(calc.out.errors) = 2
    /\ calc.out.errors[1].constraint = "design_speed"
    /\ calc.out.errors[1].hi = 100

\* the row of the loaded table for the arguments of a clear-zone call
\* (PyNone when the speed or the row is missing)
ArgumentRow ==
    IF ToString(calc.args.design_speed) \notin DOMAIN design_speed_based
    THEN PyNone
    ELSE ClearZoneRow(design_speed_based[ToString(calc.args.design_speed)],
                      _get_adt_category(calc.args.adt),
                      calc.args.slope_position, calc.args.slope_category)

ValidClearZoneCall ==
    /\ calc.fn = "ClearZoneCalculator.calculate"
    /\ ViolatedConstraints = {}
    /\ calc.args.slope_position \in {"foreslope", "backslope"}

\* C22 as stated: for valid inputs whose row exists,
\* ClearZoneCalculator.calculate returns a bundle with the row's min and
\* max, the row's asterisk flag, and compliant = width positive and
\* min <= max.
C22_ClearZoneBundleFromRow ==
    (ValidClearZoneCall /\ ArgumentRow # PyNone) =>
        /\ calc.out.outcome = "return"
        /\ calc.out.bundle.min_width = ArgumentRow.min
        /\ calc.out.bundle.max_width = ArgumentRow.max
        /\ calc.out.bundle.asterisk = DictGet(ArgumentRow, "asterisk", FALSE)
        /\ calc.out.bundle.compliant
              = (ArgumentRow.min > 0 /\ ArgumentRow.min <= ArgumentRow.max)

\* C23 as stated: every calculator result that is returned was obtained
\* through the resolution service and carries its verification record.
C23_ResultsThroughService ==
    (CalculatorCall /\ calc.out.outcome = "return") =>
        /\ calc.out.through = "StandardsService"
        /\ "verification" \in DOMAIN calc.out.bundle

\* the table a speed-keyed calculator reads
SpeedTable ==
    IF calc.fn = "calculate_minimum_radius" THEN design_speed_radius
    ELSE design_speed_based

\* the call passes validation and its design speed has no row
SpeedWithoutRow ==
    /\ calc.fn \in {"calculate_minimum_radius", "ClearZoneCalculator.calculate"}
    /\ ViolatedConstraints = {}
    /\ ToString(calc.args.design_speed) \notin DOMAIN SpeedTable

\* the table speed closest to the requested one
ClosestSpeed ==
    CHOOSE s \in {PyInt(k) : k \in DOMAIN SpeedTable} :
        \A r \in {PyInt(k) : k \in DOMAIN SpeedTable} :
            Abs(s - calc.args.design_speed) <= Abs(r - calc.args.design_speed)

BadEnumeration ==
    \/ /\ calc.fn \in {"calculate_vertical_curve_length", "get_vertical_curve_k"}
       /\ calc.args.curve_type \notin {"crest", "sag"}
    \/ /\ calc.fn \in {"ClearZoneCalculator.calculate", "get_clear_zone_width"}
       /\ calc.args.slope_position \notin {"foreslope", "backslope"}

\* the call ended with a validation error
ValidationError ==
    /\ calc.out.outcome = "raise"
    /\ IF CalculatorCall
       THEN calc.out.exc = "ValueError" /\ calc.out.lookups = 0
       ELSE calc.out.exc.type = "ValueError"
               /\ "msg" \in DOMAIN calc.out.exc
               /\ calc.out.exc.msg # "Clear zone width not found"

\* C25 as stated: a curve_type outside {crest, sag} or a slope_position
\* outside {foreslope, backslope} is rejected with a validation error, and
\* no value of the sag table or the backslope table is produced.
C25_EnumerationRejected ==
    BadEnumeration => ValidationError

----------------------------------------------------------------------------
(* VectorIndex (ai/vector_index.py) over the persistent store of one       *)
(* vector_root.  The store gives every collection it creates a new id; a   *)
(* handle is the id of the collection it was obtained for.                 *)

MaxCollections == 3
MaxDocs == 2

collection_name == "indot_standards"

Handle(id) == [ref |-> "collection", id |-> id]
NoUse == [op |-> "none"]

\* client.get_or_create_collection(name): the store afterwards and the handle
get_or_create_collection(st, name) ==
    IF name \in DOMAIN st.by_name
    THEN [store |-> st, handle |-> Handle(st.by_name[name].id)]
    ELSE [store |-> [made |-> st.made + 1,
                     by_name |-> (name :> [id |-> st.made + 1, count |-> 0])
                                   @@ st.by_name],
          handle |-> Handle(st.made + 1)]

\* client.delete_collection(name) inside try / except ValueError: pass
delete_collection(st, name) ==
    [made |-> st.made,
     by_name |-> [n \in DOMAIN st.by_name \ {name} |-> st.by_name[n]]]

\* the `collection` property: the cached handle, or a new one when
\* _collection is None
collection(ix, st) ==
    IF ix._collection = PyNone
    THEN get_or_create_collection(st, collection_name)
    ELSE [store |-> st, handle |-> ix._collection]

\* the id of the collection now stored under the name (0 when there is none)
LiveId(st) ==
    IF collection_name \in DOMAIN st.by_name
    THEN st.by_name[collection_name].id ELSE 0

\* handle.add(documents=...): the store afterwards; nothing is stored when
\* the handle's collection is gone
CollectionAdd(st, handle) ==
    IF LiveId(st) # handle.id THEN st
    ELSE [st EXCEPT !.by_name[collection_name].count = @ + 1]

\* the property may create a collection only while the store can number it
CanObtain(ix, st) ==
    \/ ix._collection # PyNone
    \/ collection_name \in DOMAIN st.by_name
    \/ st.made < MaxCollections

InitIndex ==
    /\ ServiceIdle
    /\ CacheIdle
    /\ LoaderIdle
    /\ chunker = NotCalled
    /\ applied = NotApplied
    /\ CalcIdle
    /\ IndexIdle

IndexStep(v, ix, st) ==
    /\ indexes' = [indexes EXCEPT ![v] = ix]
    /\ collections' = st
    /\ UNCHANGED <<serviceVars, cacheVars, loaderVars, chunker, applied,
                   calcVars>>

\* VectorIndex(persist_path): self._collection = None
NewVectorIndex(v) ==
    /\ ~indexes[v].created
    /\ IndexStep(v, [created |-> TRUE, _collection |-> PyNone, pc |-> "idle",
                     used |-> NoUse], collections)

\* reset, line 47: the collection is deleted
ResetDelete(v) ==
    /\ indexes[v].created
    /\ indexes[v].pc = "idle"
    /\ collections.made < MaxCollections
    /\ IndexStep(v, [indexes[v] EXCEPT !.pc = "deleted"],
                 delete_collection(collections, collection_name))

\* reset, line 50: self._collection = None
ResetForget(v) ==
    /\ indexes[v].created
    /\ indexes[v].pc = "deleted"
    /\ IndexStep(v, [indexes[v] EXCEPT !.pc = "forgot", !._collection = PyNone],
                 collections)

\* the end of reset, with the collection obtained at line 51
ResetReturned(v, got) ==
    IndexStep(v, [indexes[v] EXCEPT
                     !.pc = "idle", !._collection = got.handle,
                     !.used = [op |-> "reset", handle |-> got.handle.id,
                               live |-> LiveId(got.store),
                               count |-> got.store.by_name[collection_name].count]],
              got.store)

\* reset, line 51: _ = self.collection, and reset returns
ResetRecreate(v) ==
    /\ indexes[v].created
    /\ indexes[v].pc = "forgot"
    /\ CanObtain(indexes[v], collections)
    /\ ResetReturned(v, collection(indexes[v], collections))

\* the process running reset stops after the delete and before the
\* recreate: its VectorIndex object is gone, the store stays as it is
ResetStops(v) ==
    /\ indexes[v].created
    /\ indexes[v].pc \in {"deleted", "forgot"}
    /\ IndexStep(v, NoIndex, collections)

\* the end of add_documents on the handle the property gave
Added(v, got) ==
    IndexStep(v, [indexes[v] EXCEPT
                     !._collection = got.handle,
                     !.used = [op |-> "add_documents", handle |-> got.handle.id,
                               live |-> LiveId(got.store), count |-> 0]],
              CollectionAdd(got.store, got.handle))

\* add_documents: self.collection.add(...)
AddDocuments(v) ==
    /\ indexes[v].created
    /\ indexes[v].pc = "idle"
    /\ CanObtain(indexes[v], collections)
    /\ collection_name \in DOMAIN collections.by_name
          => collections.by_name[collection_name].count < MaxDocs
    /\ Added(v, collection(indexes[v], collections))

\* the end of query on the handle the property gave
Queried(v, got) ==
    IndexStep(v, [indexes[v] EXCEPT
                     !._collection = got.handle,
                     !.used = [op |-> "query", handle |-> got.handle.id,
                               live |-> LiveId(got.store), count |-> 0]],
              got.store)

\* query: self.collection.query(...)
Query(v) ==
    /\ indexes[v].created
    /\ indexes[v].pc = "idle"
    /\ CanObtain(indexes[v], collections)
    /\ Queried(v, collection(indexes[v], collections))

NextIndex ==
    \E v \in IndexObjs :
       \/ NewVectorIndex(v)
       \/ ResetDelete(v)
       \/ ResetForget(v)
       \/ ResetRecreate(v)
       \/ ResetStops(v)
       \/ AddDocuments(v)
       \/ Query(v)

SpecIndex == InitIndex /\ [][NextIndex]_vars

\* C26 as stated: when reset returns, the collection exists and is empty;
\* and every add_documents or query, also after a reset that stopped between
\* the delete and the recreate, acts on the collection that is stored under
\* the name at that moment, never on a missing or replaced one.
C26_ResetLeavesUsableIndex ==
    \A v \in IndexObjs :
       (indexes[v].created /\ indexes[v].used.op # "none") =>
           /\ indexes[v].used.live # 0
           /\ indexes[v].used.handle = indexes[v].used.live
           /\ indexes[v].used.op = "reset" => indexes[v].used.count = 0

----------------------------------------------------------------------------
(* QueryEngine.query_speed_value as a whole, and the cache keys of the     *)
(* query engine's entry points                                             *)

\* the cache before the call: empty, or holding an entry under the call's key
CacheBefore(kind, key) ==
    CASE kind = "miss" -> (key :> MissPayload)
      [] kind = "regex" ->
            (key :> as_dict([values |-> JList(<<JNum(83000)>>),
                             method |-> "regex", snippets |-> <<>>,
                             raw |-> PyNone]))
      [] OTHER -> EmptyDict

FileBefore(kind, key) ==
    IF kind = "none" THEN NoFile ELSE QueryCache_save(CacheBefore(kind, key))

KeyQueries == {"q", "qjson", "q6"}
KeySpeeds == {0, 1, 11, 60}
KeyCounts == {1, 2, 12}
KeyLists == {<<"1">>, <<"11">>, <<"a", "b">>, <<"a,b">>}

\* the entry-point calls whose keys are compared
KeyCalls ==
    [fn : {"query_speed_value"}, query : KeyQueries, speed : KeySpeeds,
     value_count : KeyCounts]
    \cup [fn : {"query_json"}, query : KeyQueries, response_keys : KeyLists]

\* the parts an entry point passes to build_cache_key
PartsOf(c) ==
    IF c.fn = "query_speed_value"
    THEN <<c.query, ToString(c.speed), ToString(c.value_count)>>
    ELSE <<c.query, "json", JoinComma(c.response_keys)>>

\* the key an entry point computes
KeyOf(c) ==
    IF c.fn = "query_speed_value"
    THEN SpeedCacheKey(c.query, c.speed, c.value_count)
    ELSE JsonCacheKey(c.query, c.response_keys)

PartStrings == {"a", "b", "ab"}
PartSequences ==
    {<<x>> : x \in PartStrings}
    \cup {<<x, y>> : x \in PartStrings, y \in PartStrings}

InitEngine ==
    /\ ServiceIdle
    /\ CacheIdle
    /\ LoaderIdle
    /\ chunker = NotCalled
    /\ CalcIdle
    /\ IndexIdle
    /\ \/ \E before \in {"none", "miss", "regex"}, has_llm \in BOOLEAN,
             allow_llm \in BOOLEAN, value_count \in {1, 2}, env \in SpeedEnvs :
             applied = [fn |-> "QueryEngine.query_speed_value",
                        before |-> before, has_llm |-> has_llm,
                        allow_llm |-> allow_llm, speed |-> 60,
                        value_count |-> value_count, env |-> env,
                        done |-> FALSE, out |-> PyNone]
       \/ \E first \in PartSequences, second \in PartSequences :
             applied = [fn |-> "build_cache_key", first |-> first,
                        second |-> second, done |-> FALSE, keys |-> <<>>]
       \/ \E first \in KeyCalls, second \in KeyCalls :
             applied = [fn |-> "cache keys", first |-> first,
                        second |-> second, done |-> FALSE, keys |-> <<>>]

\* one query_speed_value call
QuerySpeedValueCall ==
    /\ applied.fn = "QueryEngine.query_speed_value"
    /\ ~applied.done
    /\ applied' = [applied EXCEPT
          !.done = TRUE,
          !.out = query_speed_value(
                      CacheBefore(applied.before,
                          SpeedCacheKey(FallbackQuery, applied.speed,
                                        applied.value_count)),
                      FileBefore(applied.before,
                          SpeedCacheKey(FallbackQuery, applied.speed,
                                        applied.value_count)),
                      applied.has_llm, FallbackQuery, applied.speed,
                      applied.value_count, applied.allow_llm, applied.env)]
    /\ UNCHANGED <<serviceVars, cacheVars, loaderVars, chunker, calcVars,
                   indexVars>>

\* build_cache_key applied to two sequences of parts
BuildCacheKeys ==
    /\ applied.fn = "build_cache_key"
    /\ ~applied.done
    /\ applied' = [applied EXCEPT
          !.done = TRUE,
          !.keys = <<build_cache_key(applied.first),
                     build_cache_key(applied.second)>>]
    /\ UNCHANGED <<serviceVars, cacheVars, loaderVars, chunker, calcVars,
                   indexVars>>

\* the keys two entry-point calls compute
EntryPointKeys ==
    /\ applied.fn = "cache keys"
    /\ ~applied.done
    /\ applied' = [applied EXCEPT
          !.done = TRUE,
          !.keys = <<KeyOf(applied.first), KeyOf(applied.second)>>]
    /\ UNCHANGED <<serviceVars, cacheVars, loaderVars, chunker, calcVars,
                   indexVars>>

NextEngine ==
    \/ QuerySpeedValueCall
    \/ BuildCacheKeys
    \/ EntryPointKeys

SpecEngine == InitEngine /\ [][NextEngine]_vars

\* a query_speed_value call has been made
SpeedCallMade ==
    applied.fn = "QueryEngine.query_speed_value" /\ applied.done

\* the call found an entry under its key
LookupHit == applied.before # "none"

\* the deterministic pass of the call finds values in what retrieval returned
DeterministicValues ==
    /\ ~applied.env.retrieval.raises
    /\ Truthy(_extract_speed_values(retrieve(applied.env.retrieval.chroma),
                                    applied.speed, applied.value_count))

\* the order of the steps, as far as the calls made show it: a hit ends the
\* call at the lookup; the model client is called at most once, and only
\* after a lookup that missed, a retrieval that returned and a deterministic
\* pass without values, with allow_llm and a client
StepsInOrder ==
    /\ LookupHit => /\ applied.out.retrievals = 0
                    /\ applied.out.llm_calls = 0
                    /\ applied.out.cache_sets = 0
    /\ ~LookupHit => applied.out.retrievals = 1
    /\ applied.out.llm_calls <= 1
    /\ applied.out.llm_calls = 1 <=>
          /\ ~LookupHit
          /\ ~applied.env.retrieval.raises
          /\ ~DeterministicValues
          /\ applied.allow_llm
          /\ applied.has_llm

\* C27 as stated: the steps of a query_speed_value call come in the order
\* lookup, retrieval, deterministic extraction, model fallback; the model
\* client is called at most once and only when the lookup missed, the
\* deterministic pass gave nothing, allow_llm holds and a client exists; and
\* every call whose lookup missed writes exactly one cache entry.
C27_StepsAndOneWrite ==
    SpeedCallMade =>
        /\ StepsInOrder
        /\ ~LookupHit => applied.out.cache_sets = 1

\* C29 as stated: two sequences of parts that differ, also by the split of
\* the same characters, give different keys; so do two entry-point calls
\* that differ in function or parameters.
C29_DifferentPartsDifferentKeys ==
    (applied.fn \in {"build_cache_key", "cache keys"} /\ applied.done
        /\ applied.first # applied.second)
        => applied.keys[1] # applied.keys[2]

\* C30 as stated: the value of every StandardValue that get_clear_zone_width
\* returns, in every mode and for every model response, has numbers as min
\* and max (never None) and an asterisk that is a boolean or absent.
C30_ClearZoneValueNumeric ==
    (result.op = "get_clear_zone_width" /\ result.outcome = "return") =>
        /\ result.value.value.min.t = "num"
        /\ result.value.value.max.t = "num"
        /\ "asterisk" \in DOMAIN result.value.value
              => result.value.value.asterisk.t = "bool"

====
